---- MODULE Spec2Model ----
(***************************************************************************)
(* Model of graphql_query_optimizer: the selection-object generator        *)
(* (createSelectionObject, in its TypeScript and JavaScript variants) and  *)
(* the query serializer (buildQuery / buildFieldSelections).               *)
(*                                                                         *)
(* Strings produced by the serializer are modelled as sequences of tokens  *)
(* (the code joins its pieces with single spaces).  An object key is a     *)
(* record [pre, name]: pre = "on_" for keys that start with the fragment   *)
(* prefix, "" otherwise, so that startsWith('on_') and substring(3) are    *)
(* computed rather than assumed.                                           *)
(***************************************************************************)
EXTENDS Integers, Sequences, FiniteSets, TLC

\* ------------------------------------------------------------------------
\* Bounds of the model
\* ------------------------------------------------------------------------

\* Depth of nested calls after which the JavaScript engine raises
\* RangeError (maximum call stack size exceeded).
MaxStack == 8

\* Number of edits the caller makes to a selection object before serializing.
MaxEdits == 2

\* Number of generator calls in one history of calls.
MaxCalls == 2

\* ------------------------------------------------------------------------
\* Selection objects (src/src/createSelectionObject.ts:18-20)
\* ------------------------------------------------------------------------

\* A property name.
Key(s) == [pre |-> "", name |-> s]
OnKey(t) == [pre |-> "on_", name |-> t]
TypenameKey == Key("__typename")

\* Values held by a selection object: a boolean leaf, a nested object (its
\* entries in insertion order), a reference to the object that holds the
\* entry (SelfRef), or null (which a caller may store).
Leaf(b) == [t |-> "leaf", v |-> b, kids |-> <<>>]
Obj(entries) == [t |-> "obj", v |-> FALSE, kids |-> entries]
SelfRef == [t |-> "self", v |-> FALSE, kids |-> <<>>]
Null == [t |-> "null", v |-> FALSE, kids |-> <<>>]
EmptyObj == Obj(<<>>)
Entry(k, val) == [k |-> k, val |-> val]

\* Object.keys(o)
Keys(o) == [i \in 1..Len(o.kids) |-> o.kids[i].k]
KeySet(o) == {o.kids[i].k : i \in 1..Len(o.kids)}
HasKey(o, k) == \E i \in 1..Len(o.kids) : o.kids[i].k = k
IndexOf(o, k) == CHOOSE i \in 1..Len(o.kids) : o.kids[i].k = k

\* o[k] = val : an existing property keeps its position, a new one is appended.
Put(o, k, val) ==
  IF HasKey(o, k)
  THEN Obj([o.kids EXCEPT ![IndexOf(o, k)] = Entry(k, val)])
  ELSE Obj(Append(o.kids, Entry(k, val)))

\* o[k], with a self reference resolved to the holder.
Get(o, k) ==
  LET val == o.kids[IndexOf(o, k)].val
  IN IF val.t = "self" THEN o ELSE val

\* ------------------------------------------------------------------------
\* Schema documents: what parse(schemaSDL) yields
\* ------------------------------------------------------------------------

\* Type references, outermost wrapper first: [User!]! is
\* <<"NonNull", "List", "NonNull", "User">>.
Named(n) == <<n>>
NonNull(t) == <<"NonNull">> \o t
List(t) == <<"List">> \o t

\* An argument of a field, and a field with its arguments; F is a field
\* without arguments.
Arg(name, type) == [name |-> name, type |-> type]
FA(name, args, type) == [name |-> name, args |-> args, type |-> type]
F(name, type) == FA(name, <<>>, type)

ObjectType(name, interfaces, fields) ==
  [kind |-> "ObjectTypeDefinition", name |-> name, fields |-> fields,
   interfaces |-> interfaces, types |-> <<>>, query |-> ""]
InterfaceType(name, fields) ==
  [kind |-> "InterfaceTypeDefinition", name |-> name, fields |-> fields,
   interfaces |-> <<>>, types |-> <<>>, query |-> ""]
UnionType(name, types) ==
  [kind |-> "UnionTypeDefinition", name |-> name, fields |-> <<>>,
   interfaces |-> <<>>, types |-> types, query |-> ""]
EnumType(name) ==
  [kind |-> "EnumTypeDefinition", name |-> name, fields |-> <<>>,
   interfaces |-> <<>>, types |-> <<>>, query |-> ""]
SchemaDefinition(query) ==
  [kind |-> "SchemaDefinition", name |-> "", fields |-> <<>>,
   interfaces |-> <<>>, types |-> <<>>, query |-> query]

\* type Query { user: User  users: [User!]! }
\* type User { id: ID!  name: String!  role: Role }   enum Role { ... }
\* type Mutation { createUser(name: String!): User }
simpleSchema ==
  << ObjectType("Query", <<>>, << F("user", Named("User")),
                                  F("users", NonNull(List(NonNull(Named("User"))))) >>),
     ObjectType("User", <<>>, << F("id", NonNull(Named("ID"))),
                                 F("name", NonNull(Named("String"))),
                                 F("role", Named("Role")) >>),
     EnumType("Role"),
     ObjectType("Mutation", <<>>,
                << FA("createUser", << Arg("name", NonNull(Named("String"))) >>,
                      Named("User")) >>) >>

\* tests/createSelectionObject.test.ts: a self-referential type.
circularSchema ==
  << ObjectType("Query", <<>>, << F("person", Named("Person")) >>),
     ObjectType("Person", <<>>, << F("id", NonNull(Named("ID"))),
                                   F("name", NonNull(Named("String"))),
                                   F("bestFriend", Named("Person")),
                                   F("friends", List(NonNull(Named("Person")))) >>) >>

\* Mutually recursive object types that implement an interface.
nodeSchema ==
  << ObjectType("Query", <<>>, << F("node", Named("Node")),
                                  F("user", Named("User")) >>),
     InterfaceType("Node", << F("id", NonNull(Named("ID"))) >>),
     ObjectType("User", <<"Node">>, << F("id", NonNull(Named("ID"))),
                                       F("posts", List(NonNull(Named("Post")))) >>),
     ObjectType("Post", <<"Node">>, << F("id", NonNull(Named("ID"))),
                                       F("title", NonNull(Named("String"))),
                                       F("author", NonNull(Named("User"))) >>) >>

\* An interface with two implementing types.
productSchema ==
  << ObjectType("Query", <<>>, << F("product", Named("Product")) >>),
     InterfaceType("Product", << F("id", NonNull(Named("ID"))),
                                 F("name", NonNull(Named("String"))) >>),
     ObjectType("PhysicalProduct", <<"Product">>,
                << F("id", NonNull(Named("ID"))),
                   F("name", NonNull(Named("String"))),
                   F("weight", Named("Float")) >>),
     ObjectType("DigitalProduct", <<"Product">>,
                << F("id", NonNull(Named("ID"))),
                   F("name", NonNull(Named("String"))),
                   F("downloadUrl", Named("String")) >>) >>

\* A union of two object types, behind a field with a required argument:
\* type Query { search(term: String!): SearchResult }
unionSchema ==
  << ObjectType("Query", <<>>,
                << FA("search", << Arg("term", NonNull(Named("String"))) >>,
                      Named("SearchResult")) >>),
     ObjectType("User", <<>>, << F("id", NonNull(Named("ID"))),
                                 F("name", NonNull(Named("String"))) >>),
     ObjectType("Post", <<>>, << F("id", NonNull(Named("ID"))),
                                 F("title", NonNull(Named("String"))) >>),
     UnionType("SearchResult", <<"User", "Post">>) >>

\* A union whose member refers back to the union.
unionCycleSchema ==
  << ObjectType("Query", <<>>, << F("search", Named("Result")) >>),
     UnionType("Result", <<"Item">>),
     ObjectType("Item", <<>>, << F("id", NonNull(Named("ID"))),
                                 F("related", Named("Result")) >>) >>

\* A union member that is an ancestor on the current branch.
unionAncestorSchema ==
  << ObjectType("Query", <<>>, << F("item", Named("Item")) >>),
     ObjectType("Item", <<>>, << F("alt", Named("Result")),
                                 F("next", Named("Item")) >>),
     UnionType("Result", <<"Item">>) >>

\* A union member that is an ancestor on the current branch, followed by a
\* sibling field that leads back to that ancestor.
unionSiblingSchema ==
  << ObjectType("Query", <<>>, << F("item", Named("Item")) >>),
     ObjectType("Item", <<>>, << F("alt", Named("Result")),
                                 F("other", Named("Other")) >>),
     UnionType("Result", <<"Item">>),
     ObjectType("Other", <<>>, << F("back", Named("Item")) >>) >>

\* An interface that declares a field of its own type.
parentSchema ==
  << ObjectType("Query", <<>>, << F("node", Named("Node")) >>),
     InterfaceType("Node", << F("id", NonNull(Named("ID"))),
                              F("parent", Named("Node")) >>),
     ObjectType("Folder", <<"Node">>, << F("id", NonNull(Named("ID"))),
                                         F("parent", Named("Node")) >>) >>

\* A schema definition that names the query root, before and after the types;
\* the document also defines a type called Query.
schemaFirstSchema ==
  << SchemaDefinition("Root"),
     ObjectType("Root", <<>>, << F("me", Named("ID")) >>),
     ObjectType("Query", <<>>, << F("other", Named("ID")) >>) >>
schemaLastSchema ==
  << ObjectType("Query", <<>>, << F("other", Named("ID")) >>),
     ObjectType("Root", <<>>, << F("me", Named("ID")) >>),
     SchemaDefinition("Root") >>

\* No query root.
noQuerySchema ==
  << ObjectType("User", <<>>, << F("id", NonNull(Named("ID"))),
                                 F("name", NonNull(Named("String"))) >>) >>

\* A field of a type that is not defined.
invalidSchema ==
  << ObjectType("Query", <<>>, << F("user", Named("InvalidType")) >>) >>

\* The SDL texts the callers pass; an SDL text is identified by its index.
Schemas ==
  << simpleSchema, circularSchema, nodeSchema, productSchema, unionSchema,
     unionCycleSchema, unionAncestorSchema, noQuerySchema, invalidSchema,
     unionSiblingSchema, parentSchema, schemaFirstSchema, schemaLastSchema >>

SDL == 1..Len(Schemas)

\* parse(schemaSDL) (graphql): the definitions of the document, in order.
parse(schemaSDL) == Schemas[schemaSDL]

\* ------------------------------------------------------------------------
\* createSelectionObject, TypeScript variant (src/src/createSelectionObject.ts)
\* ------------------------------------------------------------------------

RECURSIVE getNamedType(_)
getNamedType(type) ==
  IF type = <<>> THEN ""
  ELSE IF Head(type) \in {"List", "NonNull"} THEN getNamedType(Tail(type))
  ELSE Head(type)

isBuiltInType(typeName) == typeName \in {"ID", "String", "Int", "Float", "Boolean"}

\* An entry of the type map.
TypeInfo(fields, interfaces, possibleTypes) ==
  [fields |-> fields, interfaces |-> interfaces, possibleTypes |-> possibleTypes]

\* typeMap[name] = info
SetType(typeMap, name, info) ==
  [n \in DOMAIN typeMap \cup {name} |-> IF n = name THEN info ELSE typeMap[n]]

TypeDefinitionKinds ==
  {"ObjectTypeDefinition", "InterfaceTypeDefinition", "UnionTypeDefinition",
   "EnumTypeDefinition"}

\* ast.definitions.filter(...): the type definitions of the document.
typeDefinitions(ast) == SelectSeq(ast, LAMBDA def : def.kind \in TypeDefinitionKinds)

\* First pass: collect the type definitions and find the query type.
\* acc = [typeMap, queryTypeName]; queryTypeName "" stands for undefined.
RECURSIVE FirstPass(_, _, _)
FirstPass(ast, i, acc) ==
  IF i > Len(ast) THEN acc
  ELSE LET node == ast[i]
           next ==
             CASE node.kind = "SchemaDefinition" ->
                    [acc EXCEPT !.queryTypeName =
                       IF node.query # "" THEN node.query ELSE @]
               [] node.kind = "ObjectTypeDefinition" ->
                    [typeMap |-> SetType(acc.typeMap, node.name,
                                         TypeInfo(node.fields, <<>>, <<>>)),
                     queryTypeName |->
                       IF node.name = "Query" THEN "Query" ELSE acc.queryTypeName]
               [] node.kind = "InterfaceTypeDefinition" ->
                    [acc EXCEPT !.typeMap =
                       SetType(@, node.name, TypeInfo(node.fields, <<>>, <<>>))]
               [] node.kind = "UnionTypeDefinition" ->
                    [acc EXCEPT !.typeMap =
                       SetType(@, node.name, TypeInfo(<<>>, <<>>, node.types))]
               [] node.kind = "EnumTypeDefinition" ->
                    [acc EXCEPT !.typeMap =
                       SetType(@, node.name, TypeInfo(<<>>, <<>>, <<>>))]
               [] OTHER -> acc
       IN FirstPass(ast, i + 1, next)

\* Second pass: record the interfaces of the object types.
RECURSIVE SecondPass(_, _, _)
SecondPass(ast, i, typeMap) ==
  IF i > Len(ast) THEN typeMap
  ELSE LET node == ast[i]
       IN IF node.kind = "ObjectTypeDefinition" /\ Len(node.interfaces) > 0
          THEN SecondPass(ast, i + 1,
                          [typeMap EXCEPT ![node.name].interfaces = node.interfaces])
          ELSE SecondPass(ast, i + 1, typeMap)

\* Second pass: some field of an object type names a type that is neither in
\* the type map nor built in.
HasDanglingType(ast, typeMap) ==
  \E i \in 1..Len(ast) :
    /\ ast[i].kind = "ObjectTypeDefinition"
    /\ \E j \in 1..Len(ast[i].fields) :
         LET namedType == getNamedType(ast[i].fields[j].type)
         IN namedType \notin DOMAIN typeMap /\ ~isBuiltInType(namedType)

\* The value emitted for a field whose type is already in the visited set.
CircularSelection ==
  Obj(<< Entry(Key("id"), Leaf(FALSE)), Entry(Key("name"), Leaf(FALSE)),
         Entry(Key("email"), Leaf(FALSE)), Entry(Key("title"), Leaf(FALSE)),
         Entry(Key("content"), Leaf(FALSE)) >>)

\* A record of the log of a generator run: the named type of a field the
\* generator processed, the value it stored for the field, and whether it
\* found the type already visited.
Processed(type, value, cycle) == [type |-> type, value |-> value, cycle |-> cycle]

\* A call of createTypeSelection that returned: the type it was called for,
\* and the shared visited set as the call found it and as it left it.
Invocation(typeName, entry, exit) == [typeName |-> typeName, entry |-> entry, exit |-> exit]

\* The outcome of a call of createTypeSelection: the selection it returns, the
\* shared visited set as the call leaves it, whether the call stack overflowed
\* (RangeError), the log of the fields processed, and the calls of
\* createTypeSelection that returned, this one included.
Outcome(selection, visited, overflow, log, invocations) ==
  [selection |-> selection, visited |-> visited, overflow |-> overflow,
   log |-> log, invocations |-> invocations]

\* visited.delete(typeName)
Deleted(visited, typeName) == visited \ {typeName}

RECURSIVE createTypeSelection(_, _, _, _, _)
RECURSIVE AddFields(_, _, _, _, _, _)
RECURSIVE AddUnionFragments(_, _, _, _, _, _)

\* Object.entries(typeInfo.fields).forEach(...), from the i-th field on.
AddFields(fields, i, typeMap, includeTypename, acc, depth) ==
  IF i > Len(fields) \/ acc.overflow THEN acc
  ELSE LET fieldName == Key(fields[i].name)
           namedType == getNamedType(fields[i].type)
           next ==
             IF namedType \in acc.visited
             THEN Outcome(Put(acc.selection, fieldName, CircularSelection),
                          acc.visited, FALSE,
                          acc.log \cup {Processed(namedType, CircularSelection, TRUE)},
                          acc.invocations)
             ELSE IF namedType \in DOMAIN typeMap
             THEN LET sub == createTypeSelection(namedType, typeMap, includeTypename,
                                                 acc.visited \cup {namedType},
                                                 depth + 1)
                  IN Outcome(Put(acc.selection, fieldName, sub.selection),
                             Deleted(sub.visited, namedType), sub.overflow,
                             acc.log \cup sub.log
                               \cup {Processed(namedType, sub.selection, FALSE)},
                             acc.invocations \cup sub.invocations)
             ELSE Outcome(Put(acc.selection, fieldName, Leaf(FALSE)),
                          acc.visited, FALSE,
                          acc.log \cup {Processed(namedType, Leaf(FALSE), FALSE)},
                          acc.invocations)
       IN AddFields(fields, i + 1, typeMap, includeTypename, next, depth)

\* typeInfo.possibleTypes.forEach(...), from the i-th member on.
AddUnionFragments(possibleTypes, i, typeMap, includeTypename, acc, depth) ==
  IF i > Len(possibleTypes) \/ acc.overflow THEN acc
  ELSE LET possibleType == possibleTypes[i]
           sub == createTypeSelection(possibleType, typeMap, includeTypename,
                                      acc.visited \cup {possibleType}, depth + 1)
           next == Outcome(Put(acc.selection, OnKey(possibleType), sub.selection),
                           Deleted(sub.visited, possibleType), sub.overflow,
                           acc.log \cup sub.log,
                           acc.invocations \cup sub.invocations)
       IN AddUnionFragments(possibleTypes, i + 1, typeMap, includeTypename, next, depth)

createTypeSelection(typeName, typeMap, includeTypename, visited, depth) ==
  IF depth > MaxStack THEN Outcome(EmptyObj, visited, TRUE, {}, {})
  ELSE IF typeName \notin DOMAIN typeMap
  THEN Outcome(EmptyObj, visited, FALSE, {}, {Invocation(typeName, visited, visited)})
  ELSE LET typeInfo == typeMap[typeName]
           start == IF includeTypename
                    THEN Obj(<< Entry(TypenameKey, Leaf(FALSE)) >>)
                    ELSE EmptyObj
           withFields == AddFields(typeInfo.fields, 1, typeMap, includeTypename,
                                   Outcome(start, visited, FALSE, {}, {}), depth)
           withInterfaces ==
             IF Len(typeInfo.interfaces) > 0 /\ ~withFields.overflow
             THEN [withFields EXCEPT !.selection = Put(@, OnKey(typeName), SelfRef)]
             ELSE withFields
           out == AddUnionFragments(typeInfo.possibleTypes, 1, typeMap, includeTypename,
                                    withInterfaces, depth)
       IN IF out.overflow THEN out
          ELSE [out EXCEPT !.invocations = @ \cup {Invocation(typeName, visited, out.visited)}]

\* Error messages.
ErrNoTypeDefinition == "Schema must contain at least one type definition"
ErrTypeNotFound == "Type not found in schema"
ErrNoQueryType == "No query type found in schema."
ErrQueryTypeNotFound == "Query type not found in schema."
ErrInvalidSchema == "Invalid schema provided"
ErrRangeError == "Maximum call stack size exceeded"
NoError == ""

\* What a call of the generator hands back: the error it throws (NoError when
\* it returns), the selection object it returns, the schema cache after the
\* call, the log of the fields processed, and whether the schema cache was hit.
Returned(error, selection, cache, log, hit) ==
  [error |-> error, selection |-> selection, cache |-> cache, log |-> log,
   hit |-> hit]

\* A catch clause that lets no message through.
RethrowInvalid(message) == ErrInvalidSchema

\* The catch clause: the listed messages pass through, anything else (a
\* RangeError among them) becomes 'Invalid schema provided'.
Rethrow(message) ==
  IF message \in {ErrTypeNotFound, ErrQueryTypeNotFound, ErrNoQueryType,
                  ErrNoTypeDefinition}
  THEN message
  ELSE ErrInvalidSchema

\* createSelectionObject that drops the options on a cache hit.
createSelectionObjectTsNoOptions(schemaSDL, includeTypename, cache) ==
  IF schemaSDL \in DOMAIN cache
  THEN LET out == createTypeSelection(cache[schemaSDL].queryTypeName,
                                      cache[schemaSDL].typeMap, FALSE, {}, 1)
       IN Returned(IF out.overflow THEN ErrRangeError ELSE NoError,
                   out.selection, cache, out.log, TRUE)
  ELSE LET first == FirstPass(parse(schemaSDL), 1,
                              [typeMap |-> << >>, queryTypeName |-> ""])
           typeMap == SecondPass(parse(schemaSDL), 1, first.typeMap)
           out == createTypeSelection(first.queryTypeName, typeMap,
                                      includeTypename, {}, 1)
       IN IF HasDanglingType(parse(schemaSDL), typeMap) \/ first.queryTypeName = ""
             \/ out.overflow
          THEN Returned(ErrInvalidSchema, EmptyObj, cache, {}, FALSE)
          ELSE Returned(NoError, out.selection,
                        [k \in DOMAIN cache \cup {schemaSDL} |->
                           IF k = schemaSDL
                           THEN [typeMap |-> typeMap,
                                 queryTypeName |-> first.queryTypeName]
                           ELSE cache[k]],
                        out.log, FALSE)

\* createSelectionObject(schemaSDL, options) with the schema cache `cache`.
createSelectionObjectTs(schemaSDL, includeTypename, cache) ==
  IF schemaSDL \in DOMAIN cache
  THEN LET cached == cache[schemaSDL]
           out == createTypeSelection(cached.queryTypeName, cached.typeMap,
                                      includeTypename, {}, 1)
       IN IF out.overflow
          THEN Returned(ErrRangeError, EmptyObj, cache, {}, TRUE)
          ELSE Returned(NoError, out.selection, cache, out.log, TRUE)
  ELSE LET ast == parse(schemaSDL)
           first == FirstPass(ast, 1, [typeMap |-> << >>, queryTypeName |-> ""])
           typeMap == SecondPass(ast, 1, first.typeMap)
           queryTypeName == first.queryTypeName
       IN IF Len(typeDefinitions(ast)) = 0
          THEN Returned(Rethrow(ErrNoTypeDefinition), EmptyObj, cache, {}, FALSE)
          ELSE IF HasDanglingType(ast, typeMap)
          THEN Returned(Rethrow(ErrTypeNotFound), EmptyObj, cache, {}, FALSE)
          ELSE IF queryTypeName = ""
          THEN Returned(Rethrow(ErrNoQueryType), EmptyObj, cache, {}, FALSE)
          ELSE IF queryTypeName \notin DOMAIN typeMap
          THEN Returned(Rethrow(ErrQueryTypeNotFound), EmptyObj, cache, {}, FALSE)
          ELSE LET entry == [typeMap |-> typeMap, queryTypeName |-> queryTypeName]
                   cache2 == [k \in DOMAIN cache \cup {schemaSDL} |->
                                IF k = schemaSDL THEN entry ELSE cache[k]]
                   out == createTypeSelection(queryTypeName, typeMap,
                                              includeTypename, {}, 1)
               IN IF out.overflow
                  THEN Returned(Rethrow(ErrRangeError), EmptyObj, cache2, {}, FALSE)
                  ELSE Returned(NoError, out.selection, cache2, out.log, FALSE)

\* ------------------------------------------------------------------------
\* buildSchema(schemaSDL) (graphql), as far as the library reads its result
\* ------------------------------------------------------------------------

\* A type of the built schema.  Object and interface types have getFields;
\* astKind is astNode.kind; scalars (built-in) have neither fields nor members.
GraphQLType(name, astKind, fields, members) ==
  [name |-> name, astKind |-> astKind, fields |-> fields, members |-> members]

ScalarType(name) == GraphQLType(name, "ScalarTypeDefinition", <<>>, <<>>)

hasGetFields(type) == type.astKind \in {"ObjectTypeDefinition", "InterfaceTypeDefinition"}

\* The object types of the document that implement interfaceName, in order.
Implementations(ast, interfaceName) ==
  LET impls == SelectSeq(ast, LAMBDA def :
                 /\ def.kind = "ObjectTypeDefinition"
                 /\ \E i \in 1..Len(def.interfaces) : def.interfaces[i] = interfaceName)
  IN [i \in 1..Len(impls) |-> impls[i].name]

\* The name of the root type of the mutation or subscription operation (""
\* when there is none): the object type called Mutation or Subscription, in a
\* document without a schema definition.
DefaultRoot(ast, typeName) ==
  IF /\ \A i \in 1..Len(ast) : ast[i].kind # "SchemaDefinition"
     /\ \E i \in 1..Len(ast) :
          ast[i].kind = "ObjectTypeDefinition" /\ ast[i].name = typeName
  THEN typeName ELSE ""

\* The name of the root type of the query operation ("" when there is none):
\* the one the schema definition names, else the type called Query.
QueryRoot(ast) ==
  LET schemaDefs == SelectSeq(ast, LAMBDA def : def.kind = "SchemaDefinition")
  IN IF Len(schemaDefs) > 0 THEN schemaDefs[1].query
     ELSE IF \E i \in 1..Len(ast) :
               ast[i].kind = "ObjectTypeDefinition" /\ ast[i].name = "Query"
     THEN "Query" ELSE ""

\* buildSchema: [valid, types, queryType, mutationType, subscriptionType].
\* valid is FALSE when buildSchema throws (a field or an argument names an
\* unknown type).
buildSchema(schemaSDL) ==
  LET ast == parse(schemaSDL)
      defs == typeDefinitions(ast)
      names == {defs[i].name : i \in 1..Len(defs)}
      defOf(n) == defs[CHOOSE i \in 1..Len(defs) : defs[i].name = n]
      known == names \cup {"ID", "String", "Int", "Float", "Boolean"}
      fieldsOk == \A i \in 1..Len(defs) : \A j \in 1..Len(defs[i].fields) :
                     /\ getNamedType(defs[i].fields[j].type) \in known
                     /\ \A a \in 1..Len(defs[i].fields[j].args) :
                          getNamedType(defs[i].fields[j].args[a].type) \in known
      membersOk == \A i \in 1..Len(defs) : \A j \in 1..Len(defs[i].types) :
                     defs[i].types[j] \in names
  IN [valid |-> fieldsOk /\ membersOk,
      types |-> [n \in names |->
                   LET def == defOf(n)
                   IN GraphQLType(n, def.kind, def.fields,
                        IF def.kind = "InterfaceTypeDefinition"
                        THEN Implementations(ast, n) ELSE def.types)],
      queryType |-> QueryRoot(ast),
      mutationType |-> DefaultRoot(ast, "Mutation"),
      subscriptionType |-> DefaultRoot(ast, "Subscription")]

\* schema.getType(name); NoType stands for undefined.
NoType == GraphQLType("", "", <<>>, <<>>)
getTypeOrUser(schema, name) ==
  IF name \in DOMAIN schema.types THEN schema.types[name]
  ELSE IF isBuiltInType(name) THEN ScalarType(name)
  ELSE IF "User" \in DOMAIN schema.types THEN schema.types["User"]
  ELSE NoType

getType(schema, name) ==
  IF name \in DOMAIN schema.types THEN schema.types[name]
  ELSE IF isBuiltInType(name) THEN ScalarType(name)
  ELSE NoType

\* schema.getPossibleTypes(abstractType)
getPossibleTypes(schema, type) == type.members

\* ------------------------------------------------------------------------
\* createSelectionObject, JavaScript variant (src/src/createSelectionObject.js)
\* ------------------------------------------------------------------------

isInterfaceType(type) == type.astKind = "InterfaceTypeDefinition"
isUnionType(type) == type.astKind = "UnionTypeDefinition"

\* What the recursive helpers return: the object built, and the log of the
\* fields processed.
Built(selection, log) == [selection |-> selection, log |-> log]

\* ShallowFields with the assignment result[fieldName] = true.
ShallowFieldsSelected(fields) ==
  Obj([i \in 1..Len(fields) |-> Entry(Key(fields[i].name), Leaf(TRUE))])

\* Every field of the type set to false.
ShallowFields(fields) ==
  Obj([i \in 1..Len(fields) |-> Entry(Key(fields[i].name), Leaf(FALSE))])

RECURSIVE recurseFields(_, _, _, _)
RECURSIVE RecurseLoop(_, _, _, _, _, _)
RECURSIVE handleInterface(_, _, _, _)
RECURSIVE InterfaceFieldsLoop(_, _, _, _, _, _)
RECURSIVE PossibleTypesLoop(_, _, _, _, _, _)
RECURSIVE handleUnion(_, _, _, _)

\* Object.keys(fields).forEach(...) of recurseFields, from the i-th field on;
\* visitedTypes already holds the type being processed.
RecurseLoop(fields, i, schema, includeTypename, visitedTypes, acc) ==
  IF i > Len(fields) THEN acc
  ELSE LET fieldName == Key(fields[i].name)
           fieldType == getType(schema, getNamedType(fields[i].type))
           sub == IF hasGetFields(fieldType)
                  THEN recurseFields(fieldType, schema, includeTypename, visitedTypes)
                  ELSE IF isInterfaceType(fieldType)
                  THEN handleInterface(fieldType, schema, includeTypename, visitedTypes)
                  ELSE IF isUnionType(fieldType)
                  THEN handleUnion(fieldType, schema, includeTypename, visitedTypes)
                  ELSE Built(Leaf(FALSE), {})
           cycle == hasGetFields(fieldType) /\ fieldType.name \in visitedTypes
       IN RecurseLoop(fields, i + 1, schema, includeTypename, visitedTypes,
                      Built(Put(acc.selection, fieldName, sub.selection),
                            acc.log \cup sub.log
                              \cup {Processed(fieldType.name, sub.selection, cycle)}))

recurseFields(graphQLType, schema, includeTypename, visitedTypes) ==
  IF graphQLType.name = "" THEN Built(EmptyObj, {})
  ELSE IF graphQLType.name \in visitedTypes
  THEN LET result == IF hasGetFields(graphQLType)
                     THEN ShallowFields(graphQLType.fields) ELSE EmptyObj
       IN Built(result, {})
  ELSE IF ~hasGetFields(graphQLType) THEN Built(EmptyObj, {})
  ELSE RecurseLoop(graphQLType.fields, 1, schema, includeTypename,
                   visitedTypes \cup {graphQLType.name}, Built(EmptyObj, {}))

\* The loop over the possible types of an interface or union, from the i-th on.
PossibleTypesLoop(possibleTypes, i, schema, includeTypename, visitedTypes, acc) ==
  IF i > Len(possibleTypes) THEN acc
  ELSE LET type == getType(schema, possibleTypes[i])
           sub == recurseFields(type, schema, includeTypename, visitedTypes)
       IN PossibleTypesLoop(possibleTypes, i + 1, schema, includeTypename, visitedTypes,
                            Built(Put(acc.selection, OnKey(type.name), sub.selection),
                                  acc.log \cup sub.log))

\* The loop over the fields of an interface, from the i-th on.
InterfaceFieldsLoop(fields, i, schema, includeTypename, visitedTypes, acc) ==
  IF i > Len(fields) THEN acc
  ELSE LET fieldType == getType(schema, getNamedType(fields[i].type))
           sub == IF hasGetFields(fieldType)
                  THEN recurseFields(fieldType, schema, includeTypename, visitedTypes)
                  ELSE Built(Leaf(FALSE), {})
           cycle == hasGetFields(fieldType) /\ fieldType.name \in visitedTypes
       IN InterfaceFieldsLoop(fields, i + 1, schema, includeTypename, visitedTypes,
                              Built(Put(acc.selection, Key(fields[i].name), sub.selection),
                                    acc.log \cup sub.log
                                      \cup {Processed(fieldType.name, sub.selection, cycle)}))

handleInterface(interfaceType, schema, includeTypename, visitedTypes) ==
  LET start == IF includeTypename
               THEN Obj(<< Entry(TypenameKey, Leaf(FALSE)) >>) ELSE EmptyObj
      withFields == IF hasGetFields(interfaceType)
                    THEN InterfaceFieldsLoop(interfaceType.fields, 1, schema,
                                             includeTypename, visitedTypes,
                                             Built(start, {}))
                    ELSE Built(start, {})
  IN PossibleTypesLoop(getPossibleTypes(schema, interfaceType), 1, schema,
                       includeTypename, visitedTypes, withFields)

handleUnion(unionType, schema, includeTypename, visitedTypes) ==
  LET start == IF includeTypename
               THEN Obj(<< Entry(TypenameKey, Leaf(FALSE)) >>) ELSE EmptyObj
  IN PossibleTypesLoop(getPossibleTypes(schema, unionType), 1, schema,
                       includeTypename, visitedTypes, Built(start, {}))

ErrUnknownType == "Unknown type"

\* createSelectionObject(schemaSDL, options) of the JavaScript variant; it has
\* no schema cache.
createSelectionObjectJs(schemaSDL, includeTypename, cache) ==
  LET schema == buildSchema(schemaSDL)
  IN IF ~schema.valid THEN Returned(ErrUnknownType, EmptyObj, cache, {}, FALSE)
     ELSE IF schema.queryType = "" \/ schema.queryType \notin DOMAIN schema.types
     THEN Returned(ErrNoQueryType, EmptyObj, cache, {}, FALSE)
     ELSE LET out == recurseFields(getType(schema, schema.queryType), schema,
                                   includeTypename, {})
          IN Returned(NoError, out.selection, cache, out.log, FALSE)

\* ------------------------------------------------------------------------
\* buildFieldSelections and buildQuery (src/src/buildQuery.ts)
\* ------------------------------------------------------------------------

\* typeof value === 'object'
IsObjectTyped(val) == val.t \in {"obj", "null"}

\* The field called name among fields; NoField stands for undefined.
NoField == F("", <<>>)

\* A lookup that takes a name the type does not have for a String field.
FieldAssumed(fields, name) ==
  IF \E i \in 1..Len(fields) : fields[i].name = name
  THEN fields[CHOOSE i \in 1..Len(fields) : fields[i].name = name]
  ELSE F(name, Named("String"))

FieldNamed(fields, name) ==
  IF \E i \in 1..Len(fields) : fields[i].name = name
  THEN fields[CHOOSE i \in 1..Len(fields) : fields[i].name = name]
  ELSE NoField

\* getUnwrappedType(field.type): the type object under the wrappers.
getUnwrappedType(schema, type) == getType(schema, getNamedType(type))

\* What a serialization step yields: the text as its sequence of tokens, and
\* whether a TypeError was thrown on the way.
Text(tokens) == [text |-> tokens, threw |-> FALSE]
Threw == [text |-> <<>>, threw |-> TRUE]

\* someField { body }
Block(name, body) == <<name, "{">> \o body \o <<"}">>
\* someField {}
EmptyBlock(name) == <<name, "{}">>
\* The body of a fragment spread into the parent without its type condition.
InlineSpread(typeName, body) == body

\* ... on TypeName { body }
InlineFragment(typeName, body) == <<"...", "on", typeName, "{">> \o body \o <<"}">>

\* Object.keys(isSelected).some(key => key.startsWith('on_'))
hasInlineFragments(isSelected) ==
  \E i \in 1..Len(isSelected.kids) : isSelected.kids[i].k.pre = "on_"

RECURSIVE buildFieldSelections(_, _, _)
RECURSIVE SelectionsLoop(_, _, _, _, _)
RECURSIVE RegularSelectionsLoop(_, _, _, _, _)
RECURSIVE FragmentsLoop(_, _, _, _)
RECURSIVE FieldSelection(_, _, _, _)

\* The first inner loop of the fragment branch: the entries of isSelected that
\* are neither fragments nor __typename, from the i-th on.
RegularSelectionsLoop(isSelected, i, fieldType, schema, acc) ==
  IF i > Len(isSelected.kids) \/ acc.threw THEN acc
  ELSE LET subFieldName == isSelected.kids[i].k
           val == Get(isSelected, subFieldName)
           subField == IF hasGetFields(fieldType)
                       THEN FieldNamed(fieldType.fields, subFieldName.name)
                       ELSE NoField
           next ==
             IF subFieldName.pre = "on_" \/ subFieldName = TypenameKey
                \/ subField = NoField
             THEN acc
             ELSE IF IsObjectTyped(val)
             THEN LET subSelections ==
                        buildFieldSelections(val, getUnwrappedType(schema, subField.type),
                                             schema)
                  IN IF subSelections.threw THEN Threw
                     ELSE IF subSelections.text # <<>>
                     THEN Text(acc.text \o Block(subFieldName.name, subSelections.text))
                     ELSE acc
             ELSE IF val = Leaf(TRUE)
             THEN Text(acc.text \o <<subFieldName.name>>)
             ELSE acc
       IN RegularSelectionsLoop(isSelected, i + 1, fieldType, schema, next)

\* The second inner loop of the fragment branch: the on_<TypeName> entries,
\* from the i-th on.
FragmentsLoop(isSelected, i, schema, acc) ==
  IF i > Len(isSelected.kids) \/ acc.threw THEN acc
  ELSE LET subFieldName == isSelected.kids[i].k
           typeName == subFieldName.name
           typeObj == getType(schema, typeName)
           next ==
             IF subFieldName.pre # "on_" \/ typeObj = NoType THEN acc
             ELSE LET fragmentSelections ==
                        buildFieldSelections(Get(isSelected, subFieldName), typeObj, schema)
                  IN IF fragmentSelections.threw THEN Threw
                     ELSE IF fragmentSelections.text # <<>>
                     THEN Text(acc.text \o InlineFragment(typeName, fragmentSelections.text))
                     ELSE acc
       IN FragmentsLoop(isSelected, i + 1, schema, next)

\* The part of the loop body that handles an object-valued or true entry of
\* a field the type has: what it pushes onto selections.
FieldSelection(fieldName, isSelected, fieldType, schema) ==
  IF IsObjectTyped(isSelected)
  THEN IF isSelected.t = "null" THEN Threw
       ELSE IF Len(isSelected.kids) = 0 THEN Text(EmptyBlock(fieldName))
       ELSE IF hasInlineFragments(isSelected)
       THEN LET typename == IF HasKey(isSelected, TypenameKey)
                               /\ Get(isSelected, TypenameKey) = Leaf(TRUE)
                            THEN <<"__typename">> ELSE <<>>
                regularSelections ==
                  RegularSelectionsLoop(isSelected, 1, fieldType, schema, Text(typename))
                fragments == FragmentsLoop(isSelected, 1, schema, Text(<<>>))
                allSelections == regularSelections.text \o fragments.text
            IN IF regularSelections.threw \/ fragments.threw THEN Threw
               ELSE IF allSelections # <<>> THEN Text(Block(fieldName, allSelections))
               ELSE Text(EmptyBlock(fieldName))
       ELSE LET subSelection == buildFieldSelections(isSelected, fieldType, schema)
            IN IF subSelection.threw THEN Threw
               ELSE IF subSelection.text # <<>>
               THEN Text(Block(fieldName, subSelection.text))
               ELSE IF Len(isSelected.kids) > 0 THEN Text(EmptyBlock(fieldName))
               ELSE Text(<<>>)
  ELSE IF isSelected = Leaf(TRUE) THEN Text(<<fieldName>>)
  ELSE Text(<<>>)

\* for (const fieldName in selectionObject), from the i-th entry on.
SelectionsLoop(selectionObject, i, graphQLType, schema, acc) ==
  IF i > Len(selectionObject.kids) \/ acc.threw THEN acc
  ELSE LET fieldName == selectionObject.kids[i].k
           isSelected == Get(selectionObject, fieldName)
           field == FieldNamed(graphQLType.fields, fieldName.name)
           next ==
             IF fieldName.pre = "on_" THEN acc
             ELSE IF fieldName = TypenameKey
             THEN IF isSelected = Leaf(TRUE)
                  THEN Text(acc.text \o <<"__typename">>) ELSE acc
             ELSE IF field = NoField THEN acc
             ELSE LET pushed == FieldSelection(fieldName.name, isSelected,
                                               getUnwrappedType(schema, field.type),
                                               schema)
                  IN IF pushed.threw THEN Threw ELSE Text(acc.text \o pushed.text)
       IN SelectionsLoop(selectionObject, i + 1, graphQLType, schema, next)

buildFieldSelections(selectionObject, graphQLType, schema) ==
  IF selectionObject.t # "obj" THEN Text(<<>>)
  ELSE IF graphQLType = NoType \/ ~hasGetFields(graphQLType) THEN Text(<<>>)
  ELSE IF Len(selectionObject.kids) = 0 THEN Text(<<>>)
  ELSE SelectionsLoop(selectionObject, 1, graphQLType, schema, Text(<<>>))

ErrSchemaString == "Schema must be a valid SDL string"
ErrSelectionObject == "Selection object must be a valid object"
\* `Unsupported operation type: ${operationType}`
ErrUnsupportedOperation(operationType) ==
  CASE operationType = "invalid" -> "Unsupported operation type: invalid"
    [] operationType = "Query" -> "Unsupported operation type: Query"
    [] OTHER -> "Unsupported operation type"
\* `No ${operationType} type found in schema.`
ErrNoOperationType(operationType) ==
  CASE operationType = "query" -> "No query type found in schema."
    [] operationType = "mutation" -> "No mutation type found in schema."
    [] OTHER -> "No subscription type found in schema."
ErrTypeError == "TypeError"

\* The SDL argument when it is missing, empty or not a string.
NoSDL == 0

\* Every operation type there is.
IsAnyOperation(operationType) == TRUE

\* The operation types the if-else chain of buildQuery has a branch for.
IsSupportedOperation(operationType) ==
  operationType \in {"query", "mutation", "subscription"}

\* The query root whatever the operation.
RootTypeNameQuery(schema, operationType) == schema.queryType

\* The name of the root type of an operation ("" when the schema has none).
RootTypeName(schema, operationType) ==
  CASE operationType = "query" -> schema.queryType
    [] operationType = "mutation" -> schema.mutationType
    [] operationType = "subscription" -> schema.subscriptionType
    [] OTHER -> ""

\* What buildQuery hands back: the error it throws (NoError when it returns)
\* and the query text.
Query(error, text) == [error |-> error, text |-> text]

\* The operation text with the operation name left out of an empty operation.
OperationTextUnnamed(operationType, operationNameStr, fieldsString) ==
  IF fieldsString = <<>> THEN <<operationType, "{}">>
  ELSE <<operationType>> \o operationNameStr \o <<"{">> \o fieldsString \o <<"}">>

\* The operation text with the keyword query whatever the operation type.
OperationTextQuery(operationType, operationNameStr, fieldsString) ==
  IF fieldsString = <<>> THEN <<"query">> \o operationNameStr \o <<"{}">>
  ELSE <<"query">> \o operationNameStr \o <<"{">> \o fieldsString \o <<"}">>

\* The two return statements of buildQuery: the operation keyword, the
\* operation name if there is one, and the body ({} for no fields).
OperationText(operationType, operationNameStr, fieldsString) ==
  IF fieldsString = <<>> THEN <<operationType>> \o operationNameStr \o <<"{}">>
  ELSE <<operationType>> \o operationNameStr \o <<"{">> \o fieldsString \o <<"}">>

\* A serializer that empties the selection object it is handed.
Emptied(selectionObject) == EmptyObj

\* The selection object as buildQuery and buildFieldSelections leave it: they
\* read its entries (Object.entries, subSelection[subFieldName]) and assign to
\* none of them.
Consumed(selectionObject) == selectionObject

\* The input checks with the selection object looked at first.
ValidateSelectionFirst(schemaSDL, selectionObject) ==
  IF selectionObject.t # "obj" THEN ErrSelectionObject
  ELSE IF schemaSDL = NoSDL THEN ErrSchemaString
  ELSE NoError

\* The two input checks at the head of buildQuery: the message thrown
\* (NoError when both arguments pass).
ValidateInputs(schemaSDL, selectionObject) ==
  IF schemaSDL = NoSDL THEN ErrSchemaString
  ELSE IF selectionObject.t # "obj" THEN ErrSelectionObject
  ELSE NoError

\* buildQuery(schemaSDL, selectionObject, options); an option that is not
\* given is "".
buildQuery(schemaSDL, selectionObject, operationType, operationName) ==
  IF ValidateInputs(schemaSDL, selectionObject) # NoError
  THEN Query(ValidateInputs(schemaSDL, selectionObject), <<>>)
  ELSE LET schema == buildSchema(schemaSDL)
           opType == IF operationType = "" THEN "query" ELSE operationType
           rootName == RootTypeName(schema, opType)
           operationNameStr == IF operationName = "" THEN <<>> ELSE <<operationName>>
       IN IF ~schema.valid THEN Query(ErrUnknownType, <<>>)
          ELSE IF ~IsSupportedOperation(opType)
          THEN Query(ErrUnsupportedOperation(opType), <<>>)
          ELSE IF rootName = "" \/ rootName \notin DOMAIN schema.types
          THEN Query(ErrNoOperationType(opType), <<>>)
          ELSE LET fieldsString ==
                     buildFieldSelections(selectionObject, getType(schema, rootName),
                                          schema)
               IN IF fieldsString.threw THEN Query(ErrTypeError, <<>>)
                  ELSE Query(NoError, OperationText(opType, operationNameStr,
                                                    fieldsString.text))

\* ------------------------------------------------------------------------
\* The caller's edits of a selection object
\* ------------------------------------------------------------------------

\* The paths (sequences of keys) from an object to its boolean leaves, and to
\* its nested objects; a self reference is an alias, not a further object.
RECURSIVE LeafPaths(_)
LeafPaths(o) ==
  UNION { LET e == o.kids[i]
          IN IF e.val.t = "leaf" THEN {<<e.k>>}
             ELSE IF e.val.t = "obj" THEN {<<e.k>> \o p : p \in LeafPaths(e.val)}
             ELSE {}
          : i \in 1..Len(o.kids) }

RECURSIVE ObjectPaths(_)
ObjectPaths(o) ==
  {<<>>} \cup
  UNION { LET e == o.kids[i]
          IN IF e.val.t = "obj" THEN {<<e.k>> \o p : p \in ObjectPaths(e.val)}
             ELSE {}
          : i \in 1..Len(o.kids) }

\* The value at a path.
RECURSIVE At(_, _)
At(o, path) ==
  IF path = <<>> THEN o ELSE At(o.kids[IndexOf(o, Head(path))].val, Tail(path))

\* The object with the value at a path replaced.
RECURSIVE SetAt(_, _, _)
SetAt(o, path, val) ==
  IF path = <<>> THEN val
  ELSE Put(o, Head(path), SetAt(o.kids[IndexOf(o, Head(path))].val, Tail(path), val))

\* ------------------------------------------------------------------------
\* Selection objects written by hand (tests/buildQuery.test.ts, README.md)
\* ------------------------------------------------------------------------

\* 'should handle interfaces with inline fragments'
productSelection ==
  Obj(<< Entry(Key("product"),
           Obj(<< Entry(TypenameKey, Leaf(TRUE)),
                  Entry(Key("id"), Leaf(TRUE)),
                  Entry(Key("name"), Leaf(TRUE)),
                  Entry(OnKey("PhysicalProduct"),
                        Obj(<< Entry(Key("weight"), Leaf(TRUE)) >>)),
                  Entry(OnKey("DigitalProduct"),
                        Obj(<< Entry(Key("downloadUrl"), Leaf(TRUE)) >>)) >>)) >>)

\* 'should handle union types'
searchSelection ==
  Obj(<< Entry(Key("search"),
           Obj(<< Entry(TypenameKey, Leaf(TRUE)),
                  Entry(OnKey("User"),
                        Obj(<< Entry(Key("id"), Leaf(TRUE)),
                               Entry(Key("name"), Leaf(TRUE)) >>)),
                  Entry(OnKey("Post"),
                        Obj(<< Entry(Key("id"), Leaf(TRUE)),
                               Entry(Key("title"), Leaf(TRUE)) >>)) >>)) >>)

\* 'should handle empty objects'
emptyUserSelection == Obj(<< Entry(Key("user"), EmptyObj) >>)

\* 'should ignore fields not in the schema'
staleSelection ==
  Obj(<< Entry(Key("user"),
           Obj(<< Entry(Key("id"), Leaf(TRUE)),
                  Entry(Key("nonExistentField"), Leaf(TRUE)) >>)) >>)

\* A caller that stored null for a field of the schema.
nullUserSelection == Obj(<< Entry(Key("user"), Null) >>)

\* Fragments of an interface-typed field, one of them with a nested object in
\* which nothing is selected.
nodeSelection ==
  Obj(<< Entry(Key("node"),
           Obj(<< Entry(TypenameKey, Leaf(TRUE)),
                  Entry(Key("id"), Leaf(TRUE)),
                  Entry(OnKey("User"),
                        Obj(<< Entry(Key("posts"),
                                 Obj(<< Entry(Key("title"), Leaf(FALSE)) >>)) >>)),
                  Entry(OnKey("Post"),
                        Obj(<< Entry(Key("title"), Leaf(TRUE)) >>)) >>)) >>)

\* 'should support mutations'
createUserSelection ==
  Obj(<< Entry(Key("createUser"),
           Obj(<< Entry(Key("id"), Leaf(TRUE)),
                  Entry(Key("name"), Leaf(TRUE)) >>)) >>)

\* A nested object in which nothing is selected, beside an on_ key.
userFragmentSelection ==
  Obj(<< Entry(Key("user"),
           Obj(<< Entry(Key("posts"),
                        Obj(<< Entry(Key("title"), Leaf(FALSE)) >>)),
                  Entry(OnKey("User"),
                        Obj(<< Entry(Key("id"), Leaf(TRUE)) >>)) >>)) >>)

\* A union-typed field of which only the type name is asked.
typenameSelection ==
  Obj(<< Entry(Key("search"), Obj(<< Entry(TypenameKey, Leaf(TRUE)) >>)) >>)

\* A union-typed field selected with an on_ key, beside an on_ key of its
\* parent.
nestedFragmentSelection ==
  Obj(<< Entry(Key("item"),
           Obj(<< Entry(Key("alt"),
                        Obj(<< Entry(OnKey("Item"),
                                     Obj(<< Entry(TypenameKey, Leaf(TRUE)) >>)) >>)),
                  Entry(OnKey("Item"),
                        Obj(<< Entry(TypenameKey, Leaf(TRUE)) >>)) >>)) >>)

\* Fragments on a member of the union, on a type the schema does not have,
\* and with an empty subtree.
unknownFragmentSelection ==
  Obj(<< Entry(Key("search"),
           Obj(<< Entry(OnKey("User"), Obj(<< Entry(Key("id"), Leaf(TRUE)) >>)),
                  Entry(OnKey("Unknown"), Obj(<< Entry(Key("id"), Leaf(TRUE)) >>)),
                  Entry(OnKey("Post"), EmptyObj) >>)) >>)

\* The interface test with the keys in another order: fragments, fields and
\* __typename interleaved.
interleavedSelection ==
  Obj(<< Entry(Key("product"),
           Obj(<< Entry(OnKey("PhysicalProduct"),
                        Obj(<< Entry(Key("weight"), Leaf(TRUE)) >>)),
                  Entry(Key("name"), Leaf(TRUE)),
                  Entry(OnKey("DigitalProduct"),
                        Obj(<< Entry(Key("downloadUrl"), Leaf(TRUE)) >>)),
                  Entry(Key("id"), Leaf(TRUE)),
                  Entry(TypenameKey, Leaf(TRUE)) >>)) >>)

\* An interface-typed field selected with __typename and an on_ key, beside
\* an on_ key of its parent.
nestedInterfaceSelection ==
  Obj(<< Entry(Key("node"),
           Obj(<< Entry(Key("parent"),
                        Obj(<< Entry(Key("id"), Leaf(TRUE)),
                               Entry(TypenameKey, Leaf(TRUE)),
                               Entry(OnKey("Folder"),
                                     Obj(<< Entry(Key("id"), Leaf(TRUE)) >>)) >>)),
                  Entry(OnKey("Folder"),
                        Obj(<< Entry(Key("id"), Leaf(TRUE)) >>)) >>)) >>)

\* { user: { id: true } }
userIdSelection ==
  Obj(<< Entry(Key("user"), Obj(<< Entry(Key("id"), Leaf(TRUE)) >>)) >>)

\* The hand-written selections, each with the SDL it is meant for.
ManualSelections ==
  << [sdl |-> 4, selection |-> productSelection],
     [sdl |-> 3, selection |-> userFragmentSelection],
     [sdl |-> 1, selection |-> createUserSelection],
     [sdl |-> 3, selection |-> nodeSelection],
     [sdl |-> 5, selection |-> searchSelection],
     [sdl |-> 1, selection |-> emptyUserSelection],
     [sdl |-> 1, selection |-> staleSelection],
     [sdl |-> 1, selection |-> nullUserSelection],
     [sdl |-> 1, selection |-> EmptyObj],
     [sdl |-> 8, selection |-> userIdSelection],
     [sdl |-> 5, selection |-> typenameSelection],
     [sdl |-> 7, selection |-> nestedFragmentSelection],
     [sdl |-> 5, selection |-> unknownFragmentSelection],
     [sdl |-> 4, selection |-> interleavedSelection],
     [sdl |-> 11, selection |-> nestedInterfaceSelection] >>

\* Keys and values a caller stores besides toggling leaves.
PutKeys == {Key("nonExistentField")}
PutValues ==
  {Leaf(TRUE), Leaf(FALSE), Null, Obj(<< Entry(Key("id"), Leaf(TRUE)) >>)}

\* ------------------------------------------------------------------------
\* State
\* ------------------------------------------------------------------------

VARIABLES
  schemaCache,      \* the module-level cache of the TypeScript variant
  variant,          \* who made the selection object held: "ts", "js", "manual"
  sdl,              \* the SDL text of the last generator call
  includeTypename,  \* options.includeTypename of the last generator call
  selection,        \* the selection object the caller holds (Null: none)
  error,            \* the error the last generator call threw
  log,              \* the fields the last generator call processed
  cacheHit,         \* whether the last generator call hit the schema cache
  earlier,          \* the generator calls that returned before the last one
  calls,            \* generator calls so far
  edits,            \* edits of the held selection object: [set, put]
  request,          \* the arguments of the last buildQuery call
  query,            \* what the last buildQuery call handed back
  optimized         \* the createOptimizedQuery call under way or over

vars == <<schemaCache, variant, sdl, includeTypename, selection, error, log,
          cacheHit, earlier, calls, edits, request, query, optimized>>

NoQuery == Query("not called", <<>>)

\* The arguments of a buildQuery call besides the selection object: the SDL
\* text and the options (an option that is not given is "").
Request(schemaSDL, operationType, operationName) ==
  [schemaSDL |-> schemaSDL, operationType |-> operationType,
   operationName |-> operationName]
NoRequest == Request(NoSDL, "", "")

\* The options callers pass.
OperationTypes == {"", "mutation", "subscription", "invalid"}
OperationNames == {"", "GetData"}
NoEdits == [set |-> 0, put |-> 0]

\* A createOptimizedQuery call: where it stands, its selectionModifier
\* argument, how often it has called it, the tree the generator handed it, and
\* its options.
Optimized(pc, modifier, modifierCalls, generated, operationType, operationName) ==
  [pc |-> pc, modifier |-> modifier, modifierCalls |-> modifierCalls,
   generated |-> generated, operationType |-> operationType,
   operationName |-> operationName]
NoOptimized == Optimized("idle", "function", 0, Null, "", "")

Init ==
  /\ schemaCache = << >>
  /\ variant = "none"
  /\ sdl = NoSDL
  /\ includeTypename = FALSE
  /\ selection = Null
  /\ error = NoError
  /\ log = {}
  /\ cacheHit = FALSE
  /\ earlier = {}
  /\ calls = 0
  /\ edits = NoEdits
  /\ request = NoRequest
  /\ query = NoQuery
  /\ optimized = NoOptimized

\* The caller receives what a generator call hands back.
Receive(v, s, inc, r) ==
  /\ schemaCache' = r.cache
  /\ variant' = v
  /\ sdl' = s
  /\ includeTypename' = inc
  /\ selection' = IF r.error = NoError THEN r.selection ELSE Null
  /\ error' = r.error
  /\ log' = r.log
  /\ cacheHit' = r.hit
  /\ earlier' = IF selection.t = "obj"
                THEN earlier \cup {[sdl |-> sdl, includeTypename |-> includeTypename,
                                    mutated |-> edits # NoEdits]}
                ELSE earlier
  /\ calls' = calls + 1
  /\ edits' = NoEdits
  /\ request' = NoRequest
  /\ query' = NoQuery

\* A call of createSelectionObject (TypeScript variant).
CreateSelectionObjectTs(limit) ==
  /\ calls < limit
  /\ \E s \in SDL, inc \in BOOLEAN :
       Receive("ts", s, inc, createSelectionObjectTs(s, inc, schemaCache))
  /\ UNCHANGED optimized

\* A call of createSelectionObject (JavaScript variant).
CreateSelectionObjectJs(limit) ==
  /\ calls < limit
  /\ \E s \in SDL, inc \in BOOLEAN :
       Receive("js", s, inc, createSelectionObjectJs(s, inc, schemaCache))
  /\ UNCHANGED optimized

\* The caller writes a selection object by hand.
WriteSelection ==
  /\ calls = 0
  /\ \E i \in 1..Len(ManualSelections) :
       /\ variant' = "manual"
       /\ sdl' = ManualSelections[i].sdl
       /\ selection' = ManualSelections[i].selection
  /\ calls' = calls + 1
  /\ edits' = NoEdits
  /\ request' = NoRequest
  /\ query' = NoQuery
  /\ UNCHANGED <<schemaCache, includeTypename, error, log, cacheHit, earlier,
                 optimized>>

\* The caller toggles a boolean leaf of the object it holds.
SetLeaf ==
  /\ selection.t = "obj"
  /\ query = NoQuery
  /\ edits.set + edits.put < MaxEdits
  /\ \E path \in LeafPaths(selection) :
       selection' = SetAt(selection, path, Leaf(~At(selection, path).v))
  /\ edits' = [edits EXCEPT !.set = @ + 1]
  /\ request' = NoRequest
  /\ query' = NoQuery
  /\ UNCHANGED <<schemaCache, variant, sdl, includeTypename, error, log, cacheHit,
                 earlier, calls, optimized>>

\* The caller stores a value under a key of some object of the tree.
PutKey ==
  /\ selection.t = "obj"
  /\ query = NoQuery
  /\ edits.set + edits.put < MaxEdits
  /\ \E path \in ObjectPaths(selection), k \in PutKeys, val \in PutValues :
       selection' = SetAt(selection, path, Put(At(selection, path), k, val))
  /\ edits' = [edits EXCEPT !.put = @ + 1]
  /\ request' = NoRequest
  /\ query' = NoQuery
  /\ UNCHANGED <<schemaCache, variant, sdl, includeTypename, error, log, cacheHit,
                 earlier, calls, optimized>>

\* A call of buildQuery with the held selection object: with the SDL text
\* the object was made for and any options, or without an SDL text.
BuildQuery ==
  /\ variant # "none"
  /\ query = NoQuery
  /\ \E r \in {Request(sdl, t, n) : t \in OperationTypes, n \in OperationNames}
              \cup {NoRequest} :
       /\ request' = r
       /\ query' = buildQuery(r.schemaSDL, selection, r.operationType, r.operationName)
  /\ selection' = Consumed(selection)
  /\ UNCHANGED <<schemaCache, variant, sdl, includeTypename, error,
                 log, cacheHit, earlier, calls, edits, optimized>>

\* One session: a selection object is generated or written, edited, and then
\* serialized.
GenerateTs == CreateSelectionObjectTs(1)
GenerateJs == CreateSelectionObjectJs(1)

Next == GenerateTs \/ GenerateJs \/ WriteSelection \/ SetLeaf \/ PutKey \/ BuildQuery

Spec == Init /\ [][Next]_vars

\* A history of generator calls, the caller editing what it got in between.
CallTs == CreateSelectionObjectTs(MaxCalls)
CallJs == CreateSelectionObjectJs(MaxCalls)

\* The caller sets a leaf of a tree a generator call returned.
MutateReturned ==
  /\ selection.t = "obj"
  /\ edits = NoEdits
  /\ \E path \in LeafPaths(selection) :
       selection' = SetAt(selection, path, Leaf(TRUE))
  /\ edits' = [edits EXCEPT !.set = 1]
  /\ request' = NoRequest
  /\ query' = NoQuery
  /\ UNCHANGED <<schemaCache, variant, sdl, includeTypename, error, log, cacheHit,
                 earlier, calls, optimized>>

NextCalls == CallTs \/ CallJs \/ MutateReturned

SpecCalls == Init /\ [][NextCalls]_vars

\* createOptimizedQuery. The values callers pass as selectionModifier: a
\* function, null, a string, an object.
Modifiers == {"function", "null", "string", "object"}

ErrSelectionModifier == "selectionModifier must be a function"

IsCallableOrObject(modifier) == modifier \in {"function", "object"}

\* typeof selectionModifier === 'function'
IsCallable(modifier) == modifier = "function"

\* What a selectionModifier may leave of the tree it is handed: the tree as it
\* was, the tree with one leaf set to true, or the tree with a hand-written
\* subtree stored under the root key user.
ModifiedTrees(tree) ==
  {tree}
    \cup {SetAt(tree, path, Leaf(TRUE)) : path \in LeafPaths(tree)}
    \cup {Put(tree, Key("user"),
              Obj(<<Entry(Key("id"), Leaf(TRUE)), Entry(Key("name"), Leaf(TRUE))>>))}

\* The options createOptimizedQuery is called with besides includeTypename.
OptimizedOperationTypes == {"", "mutation"}

\* The SDL texts createOptimizedQuery is called with: the simple schema, the
\* schema with an interface, the schema with a union, the schema without a
\* query root.
OptimizedSDL == {1, 3, 5, 8}

\* const selection = createSelectionObject(schemaSDL, options), with the
\* generator the entry point imports.
Imported(v, s, inc, cache) ==
  IF v = "ts"
  THEN createSelectionObjectTs(s, inc, cache)
  ELSE createSelectionObjectJs(s, inc, cache)

\* createOptimizedQuery holds what the generator call handed back (a throw of
\* the generator ends the call).
Hold(v, s, inc, m, r) ==
  /\ variant' = v
  /\ sdl' = s
  /\ includeTypename' = inc
  /\ selection' = IF r.error = NoError THEN r.selection ELSE Null
  /\ error' = r.error
  /\ schemaCache' = r.cache
  /\ log' = r.log
  /\ cacheHit' = r.hit
  /\ calls' = calls + 1
  /\ \E t \in OptimizedOperationTypes, n \in OperationNames :
       optimized' = Optimized(IF r.error = NoError THEN "modifier" ELSE "failed",
                              m, 0,
                              IF r.error = NoError THEN r.selection ELSE Null,
                              t, n)
  /\ UNCHANGED earlier

\* createOptimizedQuery is entered: the typeof check, and, when it passes, the
\* call of createSelectionObject with the options.
CreateOptimizedQuery ==
  /\ optimized.pc \in {"idle", "rejected", "failed", "done"}
  /\ edits' = NoEdits
  /\ request' = NoRequest
  /\ query' = NoQuery
  /\ \E m \in Modifiers :
       IF ~IsCallable(m)
       THEN /\ optimized' = Optimized("rejected", m, 0, Null, "", "")
            /\ selection' = Null
            /\ error' = ErrSelectionModifier
            /\ UNCHANGED <<schemaCache, variant, sdl, includeTypename, log,
                           cacheHit, earlier, calls>>
       ELSE /\ calls < MaxCalls
            /\ \E v \in {"ts", "js"}, s \in OptimizedSDL, inc \in BOOLEAN :
                 Hold(v, s, inc, m, Imported(v, s, inc, schemaCache))

\* selectionModifier(selection): the callback runs on the generated tree.
CallModifier ==
  /\ optimized.pc = "modifier"
  /\ \E tree \in ModifiedTrees(selection) :
       /\ selection' = tree
       /\ edits' = IF tree = selection THEN NoEdits ELSE [set |-> 1, put |-> 0]
  /\ optimized' = [optimized EXCEPT !.pc = "serialize", !.modifierCalls = @ + 1]
  /\ UNCHANGED <<schemaCache, variant, sdl, includeTypename, error, log, cacheHit,
                 earlier, calls, request, query>>

\* return buildQuery(schemaSDL, selection, options)
SerializeOptimized ==
  /\ optimized.pc = "serialize"
  /\ request' = Request(sdl, optimized.operationType, optimized.operationName)
  /\ query' = buildQuery(sdl, selection, optimized.operationType,
                         optimized.operationName)
  /\ optimized' = [optimized EXCEPT !.pc = "done"]
  /\ selection' = Consumed(selection)
  /\ UNCHANGED <<schemaCache, variant, sdl, includeTypename, error,
                 log, cacheHit, earlier, calls, edits>>

NextOptimized == CreateOptimizedQuery \/ CallModifier \/ SerializeOptimized

SpecOptimized == Init /\ [][NextOptimized]_vars

\* ------------------------------------------------------------------------
\* Properties
\* ------------------------------------------------------------------------

Generated == variant \in {"ts", "js"}

\* The operation keyword of the last buildQuery call, as a key, and the root
\* type of that operation in the schema of the held SDL text (NoType when
\* the schema has none).
OperationKey == Key(IF request.operationType = "" THEN "query" ELSE request.operationType)
RequestRoot ==
  LET schema == buildSchema(sdl)
  IN getType(schema, RootTypeName(schema, OperationKey.name))

\* The SDL describes a type graph with a query root in which every type a
\* field names is defined.
ValidTypeGraph(s) ==
  LET schema == buildSchema(s)
  IN schema.valid /\ schema.queryType \in DOMAIN schema.types

\* The tree is as the generator returned it.
Untouched == Generated /\ selection.t = "obj" /\ edits = NoEdits

\* C1: for every finite type graph (self-referential types, mutually recursive
\* types, unions whose members refer back to an ancestor included) the
\* generator terminates and returns a tree.
C1_GeneratorReturnsTree ==
  (Generated /\ ValidTypeGraph(sdl)) => (error = NoError /\ selection.t = "obj")

\* Every non-object value of the tree is the boolean false.
RECURSIVE AllLeavesFalse(_)
AllLeavesFalse(o) ==
  \A i \in 1..Len(o.kids) :
    LET val == o.kids[i].val
    IN CASE val.t = "leaf" -> val.v = FALSE
         [] val.t = "obj" -> AllLeavesFalse(val)
         [] val.t = "self" -> TRUE
         [] OTHER -> FALSE

\* C2: every leaf of a tree the generator returns is false, whatever
\* includeTypename is.
C2_EveryLeafFalse == Untouched => AllLeavesFalse(selection)

C2_Witness ==
  /\ Untouched
  /\ includeTypename
  /\ \E c \in log : c.cycle
  /\ Cardinality(LeafPaths(selection)) > 3

\* What a first call on an empty cache hands back.
FirstCall(v, s, inc) ==
  IF v = "ts" THEN createSelectionObjectTs(s, inc, << >>)
  ELSE createSelectionObjectJs(s, inc, << >>)

\* C3: for a fixed SDL and fixed options every call returns the same tree,
\* whatever calls came before (cache hit or miss, another includeTypename on
\* the same SDL, earlier trees mutated by the caller).
C3_SameTreeOnEveryCall ==
  (Generated /\ edits = NoEdits) =>
    LET first == FirstCall(variant, sdl, includeTypename)
    IN /\ (error = NoError) = (first.error = NoError)
       /\ error = NoError => selection = first.selection

C3_Witness ==
  /\ Untouched
  /\ cacheHit
  /\ \E e \in earlier :
       e.sdl = sdl /\ e.includeTypename # includeTypename /\ e.mutated

\* The keys of the fields the schema built from SDL s declares for a type
\* (none for a union, an enum or a scalar).
DeclaredFieldNames(s, typeName) ==
  LET type == getType(buildSchema(s), typeName)
  IN {Key(type.fields[i].name) : i \in 1..Len(type.fields)}

\* val is an object whose keys are exactly the declared fields of the type,
\* each false.
IsShallowFieldSet(val, s, typeName) ==
  /\ val.t = "obj"
  /\ KeySet(val) = DeclaredFieldNames(s, typeName)
  /\ \A i \in 1..Len(val.kids) : val.kids[i].val = Leaf(FALSE)

\* The log entries of the fields whose named type is of kind astKind.
FieldsOfKind(astKind) ==
  {f \in log : getType(buildSchema(sdl), f.type).astKind = astKind}

\* C4: a field whose named type is already in the visited set of the branch
\* gets an object whose keys are exactly the declared field names of that
\* type, every value false, nothing nested.
C4_RevisitedTypeShallow ==
  (Generated /\ error = NoError) =>
    \A f \in log : f.cycle => IsShallowFieldSet(f.value, sdl, f.type)

\* C5: the subtree of an interface-typed field has every field the interface
\* declares and, for each implementing type, a key on_<ImplName> holding the
\* fields of that type.
C5_InterfaceSubtree ==
  (Generated /\ error = NoError) =>
    \A f \in FieldsOfKind("InterfaceTypeDefinition") :
      /\ f.value.t = "obj"
      /\ DeclaredFieldNames(sdl, f.type) \subseteq KeySet(f.value)
      /\ \A impl \in {m[i] : m \in {getType(buildSchema(sdl), f.type).members},
                             i \in 1..Len(getType(buildSchema(sdl), f.type).members)} :
           /\ HasKey(f.value, OnKey(impl))
           /\ Get(f.value, OnKey(impl)).t = "obj"
           /\ DeclaredFieldNames(sdl, impl) \subseteq KeySet(Get(f.value, OnKey(impl)))

\* C6: the keys of the subtree of a union-typed field are exactly one
\* on_<MemberName> per member, plus __typename when includeTypename is set,
\* and each on_<MemberName> value holds the fields of that member.
C6_UnionSubtree ==
  (Generated /\ error = NoError) =>
    \A f \in FieldsOfKind("UnionTypeDefinition") :
      LET members == getType(buildSchema(sdl), f.type).members
          memberSet == {members[i] : i \in 1..Len(members)}
      IN /\ f.value.t = "obj"
         /\ KeySet(f.value) = {OnKey(m) : m \in memberSet}
                                \cup (IF includeTypename THEN {TypenameKey} ELSE {})
         /\ \A m \in memberSet :
              /\ Get(f.value, OnKey(m)).t = "obj"
              /\ DeclaredFieldNames(sdl, m) \subseteq KeySet(Get(f.value, OnKey(m)))
              /\ \A k \in KeySet(Get(f.value, OnKey(m))) \ {TypenameKey} :
                   k \in DeclaredFieldNames(sdl, m)

\* Some object of the tree has the key __typename.
RECURSIVE HasTypenameKey(_)
HasTypenameKey(o) ==
  \/ HasKey(o, TypenameKey)
  \/ \E i \in 1..Len(o.kids) : o.kids[i].val.t = "obj" /\ HasTypenameKey(o.kids[i].val)

\* C7: with includeTypename the subtree of every interface-typed or
\* union-typed field has __typename: false; without it no tree has a
\* __typename key at any depth.
C7_TypenameInjected ==
  Untouched =>
    IF includeTypename
    THEN \A f \in FieldsOfKind("InterfaceTypeDefinition")
                    \cup FieldsOfKind("UnionTypeDefinition") :
           /\ f.value.t = "obj"
           /\ HasKey(f.value, TypenameKey)
           /\ Get(f.value, TypenameKey) = Leaf(FALSE)
    ELSE ~HasTypenameKey(selection)

\* The blocks open after the first j tokens of a query text, outermost
\* first: the operation, then the fields and the inline fragments (as on_
\* keys) whose bodies have been entered and not left.
RECURSIVE OpenBlocks(_, _)
OpenBlocks(tokens, j) ==
  IF j = 0 THEN <<>>
  ELSE LET open == OpenBlocks(tokens, j - 1)
       IN IF tokens[j] = "{"
          THEN IF open = <<>> THEN <<Key(tokens[1])>>
               ELSE IF j > 3 /\ tokens[j - 2] = "on" /\ tokens[j - 3] = "..."
               THEN Append(open, OnKey(tokens[j - 1]))
               ELSE Append(open, Key(tokens[j - 1]))
          ELSE IF tokens[j] = "}" THEN SubSeq(open, 1, Len(open) - 1)
          ELSE open

\* The positions of a query text that hold a field name.
FieldNamePositions(tokens) ==
  {i \in 1..Len(tokens) :
     /\ tokens[i] \notin {"{", "}", "{}", "...", "on"}
     /\ ~(i > 2 /\ tokens[i - 1] = "on" /\ tokens[i - 2] = "...")
     /\ OpenBlocks(tokens, i - 1) # <<>>}

\* The type a path of keys leads to, from a type of the schema.
RECURSIVE TypeAt(_, _, _)
TypeAt(schema, type, path) ==
  IF path = <<>> THEN type
  ELSE IF Head(path).pre = "on_"
  THEN TypeAt(schema, getType(schema, Head(path).name), Tail(path))
  ELSE IF FieldNamed(type.fields, Head(path).name) = NoField THEN NoType
  ELSE TypeAt(schema,
              getUnwrappedType(schema, FieldNamed(type.fields, Head(path).name).type),
              Tail(path))

\* name is __typename or a field of the type whose named type is a scalar or
\* an enum.
IsScalarField(schema, type, name) ==
  \/ name = "__typename"
  \/ /\ FieldNamed(type.fields, name) # NoField
     /\ getUnwrappedType(schema, FieldNamed(type.fields, name).type).astKind
          \in {"ScalarTypeDefinition", "EnumTypeDefinition"}

\* The positions of a query text for SDL s that hold the name of a scalar
\* field.
ScalarNamePositions(s, tokens) ==
  LET schema == buildSchema(s)
      root == getType(schema, schema.queryType)
  IN {i \in FieldNamePositions(tokens) :
        IsScalarField(schema, TypeAt(schema, root, Tail(OpenBlocks(tokens, i - 1))),
                      tokens[i])}

\* The paths of the leaves of a tree that are true.
TruePaths(o) == {p \in LeafPaths(o) : At(o, p) = Leaf(TRUE)}

\* The path of a leaf of a tree for SDL s leads to a scalar field.
IsScalarLeaf(s, path) ==
  LET schema == buildSchema(s)
      root == getType(schema, schema.queryType)
  IN /\ path[Len(path)].pre = ""
     /\ IsScalarField(schema, TypeAt(schema, root, SubSeq(path, 1, Len(path) - 1)),
                      path[Len(path)].name)

\* A generated tree with exactly one scalar leaf set to true was serialized.
OneScalarLeafSerialized ==
  /\ Generated
  /\ edits = [set |-> 1, put |-> 0]
  /\ query # NoQuery
  /\ request.schemaSDL = sdl
  /\ request.operationType = ""
  /\ \A p \in TruePaths(selection) : IsScalarLeaf(sdl, p)

\* C8: buildQuery on a generated tree with exactly one scalar leaf set to
\* true emits that field name inside the bodies of its ancestor fields, and
\* no other scalar field name anywhere.
C8_RoundTrip ==
  OneScalarLeafSerialized =>
    /\ query.error = NoError
    /\ \A p \in TruePaths(selection) :
         LET positions == ScalarNamePositions(sdl, query.text)
         IN /\ Cardinality(positions) = 1
            /\ \A i \in positions :
                 /\ query.text[i] = p[Len(p)].name
                 /\ OpenBlocks(query.text, i - 1)
                      = <<Key("query")>> \o SubSeq(p, 1, Len(p) - 1)

\* The on_<TypeName> keys of an object.
FragmentKeys(o) == {k \in KeySet(o) : k.pre = "on_"}

\* The paths of the held tree to the subtrees of interface-typed or
\* union-typed fields that have at least two on_ entries.
FragmentFields ==
  LET schema == buildSchema(sdl)
      root == RequestRoot
  IN {P \in ObjectPaths(selection) :
        /\ Cardinality(FragmentKeys(At(selection, P))) >= 2
        /\ TypeAt(schema, root, P).astKind
             \in {"InterfaceTypeDefinition", "UnionTypeDefinition"}}

\* The names selected true directly in an object for a type: its true leaves
\* that are __typename or fields of the type.
SelectedNames(o, type) ==
  {o.kids[i].k.name : i \in {j \in 1..Len(o.kids) :
     /\ o.kids[j].k.pre = ""
     /\ o.kids[j].val = Leaf(TRUE)
     /\ \/ o.kids[j].k = TypenameKey
        \/ FieldNamed(type.fields, o.kids[j].k.name) # NoField}}

\* An object for a type holds a nested object under a field of the type.
HasNestedObject(o, type) ==
  \E i \in 1..Len(o.kids) :
    /\ o.kids[i].k.pre = ""
    /\ o.kids[i].val.t = "obj"
    /\ FieldNamed(type.fields, o.kids[i].k.name) # NoField

\* The positions where a fragment on typeName starts directly inside the
\* blocks `blocks`.
FragmentPositions(tokens, blocks, typeName) ==
  {i \in 1..Len(tokens) :
     /\ i + 2 <= Len(tokens)
     /\ tokens[i] = "..." /\ tokens[i + 1] = "on" /\ tokens[i + 2] = typeName
     /\ OpenBlocks(tokens, i - 1) = blocks}

\* The positions of the field names without a body directly inside `blocks`.
BareNamePositions(tokens, blocks) ==
  {i \in FieldNamePositions(tokens) :
     /\ OpenBlocks(tokens, i - 1) = blocks
     /\ (i < Len(tokens) => tokens[i + 1] \notin {"{", "{}"})}

\* A query text was built without error from the held object.
Serialized == selection.t = "obj" /\ query # NoQuery /\ query.error = NoError

\* The fragment on the type of key k, inside the field at path P, holds
\* exactly the names selected true in the on_ subtree, each once.
FragmentHoldsSelected(P, k) ==
  LET sub == Get(At(selection, P), k)
      type == getType(buildSchema(sdl), k.name)
      inside == BareNamePositions(query.text, <<OperationKey>> \o P \o <<k>>)
  IN /\ {query.text[i] : i \in inside} = SelectedNames(sub, type)
     /\ Cardinality(inside) = Cardinality(SelectedNames(sub, type))

\* __typename stands once at the level of the field at path P when its
\* __typename leaf is true, and not at all otherwise.
TypenameOnceAtField(P) ==
  LET o == At(selection, P)
      at == {i \in BareNamePositions(query.text, <<OperationKey>> \o P) :
               query.text[i] = "__typename"}
  IN Cardinality(at) = IF HasKey(o, TypenameKey) /\ Get(o, TypenameKey) = Leaf(TRUE)
                       THEN 1 ELSE 0

IsUnknownKey(k, type) ==
  /\ k.pre = ""
  /\ k # TypenameKey
  /\ \A i \in 1..Len(type.fields) : type.fields[i].name # k.name

\* The paths to the entries of a tree (for a type of the schema) whose key is
\* unknown at its position.
RECURSIVE UnknownKeyPaths(_, _, _)
UnknownKeyPaths(o, type, schema) ==
  UNION { LET e == o.kids[i]
              below == IF e.k.pre = "on_" THEN getType(schema, e.k.name)
                       ELSE IF IsUnknownKey(e.k, type) \/ e.k = TypenameKey THEN NoType
                       ELSE getUnwrappedType(schema, FieldNamed(type.fields, e.k.name).type)
          IN (IF IsUnknownKey(e.k, type) THEN {<<e.k>>} ELSE {})
             \cup (IF e.val.t = "obj" /\ ~IsUnknownKey(e.k, type)
                   THEN {<<e.k>> \o p : p \in UnknownKeyPaths(e.val, below, schema)}
                   ELSE {})
          : i \in 1..Len(o.kids) }

\* The tree without the entries whose key is unknown at its position.
RECURSIVE Prune(_, _, _)
Prune(o, type, schema) ==
  LET known == SelectSeq(o.kids, LAMBDA e : ~IsUnknownKey(e.k, type))
  IN Obj([i \in 1..Len(known) |->
            LET e == known[i]
                below == IF e.k.pre = "on_" THEN getType(schema, e.k.name)
                         ELSE IF e.k = TypenameKey THEN NoType
                         ELSE getUnwrappedType(schema,
                                FieldNamed(type.fields, e.k.name).type)
            IN IF e.val.t = "obj" THEN Entry(e.k, Prune(e.val, below, schema))
               ELSE e])

\* Some entry of the tree holds null.
RECURSIVE HasNull(_)
HasNull(o) ==
  \E i \in 1..Len(o.kids) :
    \/ o.kids[i].val.t = "null"
    \/ o.kids[i].val.t = "obj" /\ HasNull(o.kids[i].val)

\* buildQuery was called on a tree, for an SDL with a query root, that has a
\* key unknown at its position.
UnknownKeySerialized ==
  /\ selection.t = "obj"
  /\ query # NoQuery
  /\ request.schemaSDL = sdl
  /\ buildSchema(sdl).valid
  /\ UnknownKeyPaths(selection, RequestRoot, buildSchema(sdl)) # {}

\* C10: a key that is not a field of the schema type at its position (and is
\* not __typename or an on_ key) never makes buildQuery raise and never
\* appears in the output, whatever its value: the call raises nothing when
\* the schema has the requested root and the fields of the schema hold no
\* null, it hands back what it hands back for the tree without such keys, and
\* the text does not name the key at its position.
C10_UnknownKeysIgnored ==
  UnknownKeySerialized =>
    LET schema == buildSchema(sdl)
        root == RequestRoot
    IN /\ (root # NoType /\ ~HasNull(Prune(selection, root, schema)))
            => query.error = NoError
       /\ query = buildQuery(sdl, Prune(selection, root, schema),
                             request.operationType, request.operationName)
       /\ \A p \in UnknownKeyPaths(selection, root, schema) :
            \A i \in FieldNamePositions(query.text) :
              ~(/\ query.text[i] = p[Len(p)].name
                /\ OpenBlocks(query.text, i - 1)
                     = <<OperationKey>> \o SubSeq(p, 1, Len(p) - 1))

C10_Witness ==
  /\ UnknownKeySerialized
  /\ query.error = NoError
  /\ Len(query.text) > 6
  /\ LET paths == UnknownKeyPaths(selection, RequestRoot, buildSchema(sdl))
     IN /\ \E p \in paths : Len(p) >= 2 /\ At(selection, p).t = "obj"
        /\ \E p \in paths : Len(p) >= 2 /\ At(selection, p) = Leaf(TRUE)

\* buildQuery returned a text.
TextReturned == query # NoQuery /\ query.error = NoError

\* C11: every text buildQuery returns is valid GraphQL; in particular neither
\* the operation nor any field carries an empty selection set {}.
C11_NoEmptySelectionSet ==
  TextReturned => \A i \in 1..Len(query.text) : query.text[i] # "{}"

\* The operation name of the last buildQuery call, as the tokens it adds.
RequestedName ==
  IF request.operationName = "" THEN <<>> ELSE <<request.operationName>>

\* C12 as stated: for the empty root selection the text is the operation
\* keyword and an empty body, without the operation name, whatever
\* options.operationName is.
C12_EmptyRootUnnamed ==
  (TextReturned /\ selection = EmptyObj) => query.text = <<OperationKey.name, "{}">>

\* C12, amended: for the empty root selection the text is the operation
\* keyword, the operation name if one was given, and an empty body.
C12_EmptyRoot ==
  (TextReturned /\ selection = EmptyObj) =>
    query.text = <<OperationKey.name>> \o RequestedName \o <<"{}">>

C12_Witness ==
  /\ TextReturned
  /\ selection = EmptyObj
  /\ request.operationName # ""

\* The names a flat object selects for a type, in the order of its keys: its
\* true leaves under __typename or a field of the type.
SelectedInOrder(o, type) ==
  LET chosen == SelectSeq(o.kids, LAMBDA e :
                  /\ e.k.pre = ""
                  /\ e.val = Leaf(TRUE)
                  /\ \/ e.k = TypenameKey
                     \/ \E i \in 1..Len(type.fields) : type.fields[i].name = e.k.name)
  IN [i \in 1..Len(chosen) |-> chosen[i].k.name]

\* The entries of the root selection that are flat objects (leaves only, no
\* on_ key) under a field of the requested root with a leaf selected.
FlatRootEntries ==
  {i \in 1..Len(selection.kids) :
     LET e == selection.kids[i]
     IN /\ e.val.t = "obj"
        /\ e.k.pre = ""
        /\ \E j \in 1..Len(RequestRoot.fields) : RequestRoot.fields[j].name = e.k.name
        /\ \A j \in 1..Len(e.val.kids) :
             e.val.kids[j].val.t = "leaf" /\ e.val.kids[j].k.pre = ""
        /\ SelectedInOrder(e.val, TypeAt(buildSchema(sdl), RequestRoot, <<e.k>>)) # <<>>}

\* tokens holds part at position i.
HoldsAt(tokens, i, part) ==
  /\ i + Len(part) - 1 <= Len(tokens)
  /\ SubSeq(tokens, i, i + Len(part) - 1) = part

\* C13: a text with a non-empty body is the operation keyword
\* (options.operationType, query when omitted), then options.operationName
\* iff one was given, then the body in braces, in which each object field
\* whose leaves are true stands as field { leaf leaf }.
C13_OperationShape ==
  (TextReturned /\ selection.t = "obj" /\ query.text[Len(query.text)] # "{}") =>
    LET head == <<OperationKey.name>> \o RequestedName \o <<"{">>
    IN /\ HoldsAt(query.text, 1, head)
       /\ query.text[Len(query.text)] = "}"
       /\ OpenBlocks(query.text, Len(query.text)) = <<>>
       /\ \A i \in FlatRootEntries :
            LET e == selection.kids[i]
                part == Block(e.k.name,
                              SelectedInOrder(e.val, TypeAt(buildSchema(sdl), RequestRoot,
                                                            <<e.k>>)))
            IN \E at \in 1..Len(query.text) :
                 /\ HoldsAt(query.text, at, part)
                 /\ OpenBlocks(query.text, at - 1) = <<OperationKey>>

C13_Witness ==
  /\ TextReturned
  /\ request.operationType = "mutation"
  /\ request.operationName = "GetData"
  /\ query.text = <<"mutation", "GetData", "{", "createUser", "{", "id", "name", "}", "}">>

\* Every key of the path names something the schema has at its position: a
\* field of the type there, or for an on_ key a type of the schema.
Resolvable(P) ==
  LET schema == buildSchema(sdl)
  IN \A n \in 1..Len(P) :
       LET type == TypeAt(schema, RequestRoot, SubSeq(P, 1, n - 1))
       IN IF P[n].pre = "on_" THEN getType(schema, P[n].name) # NoType
          ELSE \E i \in 1..Len(type.fields) : type.fields[i].name = P[n].name

\* The paths to the object-valued entries for fields of the schema whose
\* subtree is non-empty with nothing selected: false leaves only.
UnselectedObjects ==
  {P \in ObjectPaths(selection) :
     /\ P # <<>>
     /\ P[Len(P)].pre = ""
     /\ Resolvable(P)
     /\ Len(At(selection, P).kids) > 0
     /\ \A i \in 1..Len(At(selection, P).kids) :
          At(selection, P).kids[i].val = Leaf(FALSE)}

\* C14: an object-valued entry for a field of the schema whose subtree is
\* non-empty with nothing selected is printed as fieldName {} inside the
\* bodies of its ancestors, at every nesting level, beside on_ keys too.
C14_ObjectEntryKept ==
  (TextReturned /\ selection.t = "obj") =>
    \A P \in UnselectedObjects :
      \E i \in FieldNamePositions(query.text) :
        /\ query.text[i] = P[Len(P)].name
        /\ i < Len(query.text)
        /\ query.text[i + 1] = "{}"
        /\ OpenBlocks(query.text, i - 1) = <<OperationKey>> \o SubSeq(P, 1, Len(P) - 1)

\* The field a position of a query text names (NoField when the type at the
\* position has none of that name).
FieldAt(tokens, i) ==
  LET schema == buildSchema(sdl)
      type == TypeAt(schema, RequestRoot, Tail(OpenBlocks(tokens, i - 1)))
  IN FieldNamed(type.fields, tokens[i])

\* The field declares an argument of a non-null type.
HasRequiredArgument(field) ==
  \E a \in 1..Len(field.args) : field.args[a].type[1] = "NonNull"

\* C15: a field whose definition declares a required argument is printed with
\* its arguments, as in search(term: "default") {.
C15_RequiredArgumentFilled ==
  (TextReturned /\ selection.t = "obj") =>
    \A i \in FieldNamePositions(query.text) :
      HasRequiredArgument(FieldAt(query.text, i)) =>
        /\ i + 5 <= Len(query.text)
        /\ query.text[i + 1] = "("
        /\ query.text[i + 3] = ":"
        /\ query.text[i + 5] = ")"

\* A step that enters createOptimizedQuery.
Entered ==
  /\ optimized.pc \in {"idle", "rejected", "failed", "done"}
  /\ optimized'.pc \in {"rejected", "failed", "modifier"}

\* C16: createOptimizedQuery raises 'selectionModifier must be a function'
\* before doing anything else when the modifier is not a function: the
\* generator is not called and the schema cache is left as it was.
\* Otherwise the generator runs first, the modifier is called exactly once on
\* the generated tree, before anything is serialized, and the tree that is
\* serialized is the tree the modifier edited, with the call's options.
C16_ModifierOrder ==
  /\ [][/\ (Entered /\ optimized'.modifier # "function") =>
            /\ optimized'.pc = "rejected"
            /\ error' = ErrSelectionModifier
            /\ schemaCache' = schemaCache
            /\ calls' = calls
            /\ log' = log
            /\ selection' = Null
            /\ query' = NoQuery
            /\ optimized'.modifierCalls = 0
        /\ (Entered /\ optimized'.modifier = "function") =>
            /\ calls' = calls + 1
            /\ optimized'.modifierCalls = 0
            /\ query' = NoQuery
        /\ (~Entered /\ optimized'.modifierCalls # optimized.modifierCalls) =>
            /\ optimized.modifierCalls = 0
            /\ optimized'.modifierCalls = 1
            /\ error = NoError
            /\ selection = optimized.generated
            /\ query = NoQuery
            /\ query' = NoQuery
        /\ (optimized.pc # "idle" /\ query = NoQuery /\ query' # NoQuery) =>
            /\ optimized.modifierCalls = 1
            /\ optimized'.modifierCalls = 1
            /\ selection' = selection
            /\ request' = Request(sdl, optimized.operationType,
                                  optimized.operationName)
            /\ query' = buildQuery(sdl, selection, optimized.operationType,
                                   optimized.operationName)]_vars
  /\ [](optimized.pc = "done" =>
          /\ optimized.modifierCalls = 1
          /\ optimized.modifier = "function"
          /\ query # NoQuery)

\* A second createOptimizedQuery call has serialized a tree its modifier
\* edited.
C16_Witness ==
  /\ optimized.pc = "done"
  /\ optimized.modifierCalls = 1
  /\ calls = 2
  /\ selection # optimized.generated
  /\ TextReturned
  /\ Len(query.text) > 3

\* C17: for every selection tree, a buildQuery call whose operationType option
\* is given and is none of query, mutation and subscription raises
\* 'Unsupported operation type: <value>' and returns no text.
C17_UnsupportedOperation ==
  (/\ query # NoQuery
   /\ request.schemaSDL # NoSDL
   /\ selection.t = "obj"
   /\ request.operationType = "invalid")
    => query = Query("Unsupported operation type: invalid", <<>>)

\* An unsupported operation type met a tree with a selected leaf.
C17_Witness ==
  /\ query # NoQuery
  /\ request.operationType = "invalid"
  /\ query.error = "Unsupported operation type: invalid"
  /\ \E path \in LeafPaths(selection) : At(selection, path).v

\* The schema of the SDL text has no root type for the operation.
LacksRoot(s, operationType) ==
  LET schema == buildSchema(s)
      name == CASE operationType = "mutation" -> schema.mutationType
                [] operationType = "subscription" -> schema.subscriptionType
                [] OTHER -> schema.queryType
  IN  schema.valid /\ name \notin DOMAIN schema.types

\* C18: for every selection tree, the empty one included, a buildQuery call
\* for a supported operation type whose root type the schema does not have
\* raises 'No <operationType> type found in schema.' and returns no text.
C18_MissingRootType ==
  (/\ query # NoQuery
   /\ request.schemaSDL # NoSDL
   /\ selection.t = "obj"
   /\ request.operationType \in {"", "query", "mutation", "subscription"}
   /\ LacksRoot(request.schemaSDL, request.operationType))
    => query =
         Query(CASE request.operationType = "mutation" ->
                      "No mutation type found in schema."
                 [] request.operationType = "subscription" ->
                      "No subscription type found in schema."
                 [] OTHER -> "No query type found in schema.",
               <<>>)

\* A mutation was asked of a schema that has a query root only, with a tree
\* in which a leaf is selected.
C18_Witness ==
  /\ query # NoQuery
  /\ request.operationType = "mutation"
  /\ request.schemaSDL = 3
  /\ query.error = "No mutation type found in schema."
  /\ \E path \in LeafPaths(selection) : At(selection, path).v

\* The SDL text defines types, but neither a type named Query nor a schema
\* definition.
DefinesNoQueryRoot(s) ==
  LET ast == parse(s)
  IN  /\ Len(ast) > 0
      /\ \A i \in 1..Len(ast) :
           /\ ast[i].kind \in TypeDefinitionKinds
           /\ ast[i].name # "Query"

\* C19: a createSelectionObject call on an SDL text that defines types but
\* no query root raises an error with the message 'No query type found in
\* schema.' and hands back no tree, in both variants and whatever the schema
\* cache holds.
C19_NoQueryType ==
  (Generated /\ DefinesNoQueryRoot(sdl))
    => /\ error = "No query type found in schema."
       /\ selection = Null

\* The TypeScript variant was called on such an SDL text after it had cached
\* another schema.
C19_Witness ==
  /\ variant = "ts"
  /\ DefinesNoQueryRoot(sdl)
  /\ error = "No query type found in schema."
  /\ schemaCache # << >>

\* C20: buildQuery checks its inputs before it parses the schema or reads the
\* tree: a missing or non-string schema raises 'Schema must be a valid SDL
\* string' (also when the selection is invalid too), and with a schema string
\* a null or non-object selection raises 'Selection object must be a valid
\* object', also when the schema string does not build.
C20_InputValidation ==
  query # NoQuery =>
    /\ request.schemaSDL = NoSDL =>
         query = Query("Schema must be a valid SDL string", <<>>)
    /\ (request.schemaSDL # NoSDL /\ selection.t # "obj") =>
         query = Query("Selection object must be a valid object", <<>>)

\* buildQuery was called without a schema and without a selection object.
C20_Witness ==
  /\ query # NoQuery
  /\ request.schemaSDL = NoSDL
  /\ selection = Null
  /\ query.error = "Schema must be a valid SDL string"

C22_CacheInsertOnly ==
  [][/\ \A k \in DOMAIN schemaCache :
          k \in DOMAIN schemaCache' /\ schemaCache'[k] = schemaCache[k]
     /\ \A k \in DOMAIN schemaCache' \ DOMAIN schemaCache :
          /\ k = sdl'
          /\ variant' = "ts"
          /\ error' = NoError
          /\ selection'.t = "obj"]_vars

\* The key paths of the tree that lead to a nested object through fields and
\* fragments of the schema built from SDL s.
TypedPaths(s, tree) ==
  LET schema == buildSchema(s)
      root == getType(schema, schema.queryType)
  IN  {path \in ObjectPaths(tree) \ {<<>>} :
         \A n \in 1..Len(path) : TypeAt(schema, root, SubSeq(path, 1, n)) # NoType}

\* The name of the type a key path leads to.
TypeNameAt(s, path) ==
  LET schema == buildSchema(s)
  IN  TypeAt(schema, getType(schema, schema.queryType), path).name

\* The names of the types on the way from the root to the field at a path,
\* the root type included and the field's own type left out.
TypesAbove(s, path) == {TypeNameAt(s, SubSeq(path, 1, n)) : n \in 0..(Len(path) - 1)}

\* C23: the subtree built for a field depends only on the field's named type
\* and on the set of types on the path from the root to the field: two
\* fields of a returned tree that agree in both hold equal subtrees, whatever
\* siblings were processed before either.
C23_BranchIndependent ==
  (Generated /\ Untouched) =>
    \A p, q \in TypedPaths(sdl, selection) :
      (/\ TypeNameAt(sdl, p) = TypeNameAt(sdl, q)
       /\ TypesAbove(sdl, p) = TypesAbove(sdl, q))
        => At(selection, p) = At(selection, q)

\* The paths to the object-valued entries for object-, interface- and
\* union-typed fields of the schema whose subtree holds __typename: true.
TypenameSelected ==
  {P \in ObjectPaths(selection) :
     /\ P # <<>>
     /\ P[Len(P)].pre = ""
     /\ Resolvable(P)
     /\ TypeAt(buildSchema(sdl), RequestRoot, P).astKind
          \in {"ObjectTypeDefinition", "InterfaceTypeDefinition",
               "UnionTypeDefinition"}
     /\ HasKey(At(selection, P), TypenameKey)
     /\ Get(At(selection, P), TypenameKey) = Leaf(TRUE)}

\* The positions of the text where the field at path P is emitted.
EmittedAt(P) ==
  {i \in FieldNamePositions(query.text) :
     /\ query.text[i] = P[Len(P)].name
     /\ OpenBlocks(query.text, i - 1) = <<OperationKey>> \o SubSeq(P, 1, Len(P) - 1)}

\* C24: wherever an object-valued entry for a field of the schema is emitted
\* and its subtree has __typename: true, the body emitted for the field holds
\* __typename, for object-, interface- and union-typed fields, with or
\* without on_ keys in the subtree.
C24_TypenameEmitted ==
  (TextReturned /\ selection.t = "obj") =>
    \A P \in TypenameSelected :
      EmittedAt(P) # {} =>
        \E i \in BareNamePositions(query.text, <<OperationKey>> \o P) :
          query.text[i] = "__typename"

\* The paths to the interface- or union-typed fields selected with on_ keys
\* that sit beside on_ keys of their parent field.
NestedFragmentFields ==
  {P \in ObjectPaths(selection) :
     /\ Len(P) > 1
     /\ P[Len(P)].pre = ""
     /\ P[Len(P) - 1].pre = ""
     /\ Resolvable(P)
     /\ TypeAt(buildSchema(sdl), RequestRoot, P).astKind
          \in {"InterfaceTypeDefinition", "UnionTypeDefinition"}
     /\ FragmentKeys(At(selection, P)) # {}
     /\ FragmentKeys(At(selection, SubSeq(P, 1, Len(P) - 1))) # {}}

\* What the entry at path P gives under a parent of the same type that has
\* no on_ keys.
UnderPlainParent(P) ==
  LET schema == buildSchema(sdl)
      parent == TypeAt(schema, RequestRoot, SubSeq(P, 1, Len(P) - 1))
  IN  buildFieldSelections(Obj(<< Entry(P[Len(P)], At(selection, P)) >>), parent,
                           schema).text

\* C25: an interface- or union-typed field selected with on_ keys beside on_
\* keys of its parent is emitted in the parent's body exactly as it is
\* emitted under a parent without on_ keys, its own inline fragments
\* included.
C25_NestedFragmentsEmitted ==
  (TextReturned /\ selection.t = "obj") =>
    \A P \in NestedFragmentFields :
      \E i \in 1..Len(query.text) :
        /\ HoldsAt(query.text, i, UnderPlainParent(P))
        /\ OpenBlocks(query.text, i - 1) = <<OperationKey>> \o SubSeq(P, 1, Len(P) - 1)

\* The value a path of keys leads to, a self reference followed to its holder
\* (Null when the path leaves the tree).
RECURSIVE Reach(_, _)
Reach(o, path) ==
  IF path = <<>> THEN o
  ELSE IF o.t # "obj" \/ ~HasKey(o, Head(path)) THEN Null
  ELSE Reach(Get(o, Head(path)), Tail(path))

\* The on_ entries, as <<path of the holder, key>>, that name a type the
\* schema does not have, or whose subtree is empty, or in whose subtree
\* nothing is selected (false leaves only).
InertFragments ==
  {pk \in UNION {{<<P, k>> : k \in FragmentKeys(At(selection, P))} :
                   P \in ObjectPaths(selection)} :
     LET val == At(selection, pk[1]).kids[IndexOf(At(selection, pk[1]), pk[2])].val
     IN  \/ /\ pk[2].name \notin DOMAIN buildSchema(sdl).types
            /\ ~isBuiltInType(pk[2].name)
         \/ /\ val.t = "obj"
            /\ \A i \in 1..Len(val.kids) : val.kids[i].val = Leaf(FALSE)}

\* C26: an on_<Name> entry gives an inline fragment only if <Name> is a type
\* of the schema and the fragment's body is non-empty; an entry that names an
\* unknown type, or whose subtree is empty or has nothing selected, gives
\* nothing and raises no error.
C26_FragmentOnlyIfResolved ==
  (selection.t = "obj" /\ query # NoQuery /\ request.schemaSDL = sdl) =>
    /\ TextReturned =>
         \A i \in 1..Len(query.text) :
           (/\ i + 3 <= Len(query.text)
            /\ query.text[i] = "..." /\ query.text[i + 1] = "on") =>
             LET holder == Reach(selection, Tail(OpenBlocks(query.text, i - 1)))
             IN  /\ holder.t = "obj"
                 /\ HasKey(holder, OnKey(query.text[i + 2]))
                 /\ query.text[i + 2] \in DOMAIN buildSchema(sdl).types
                 /\ query.text[i + 3] = "{"
    /\ TextReturned =>
         \A pk \in InertFragments :
           FragmentPositions(query.text, <<OperationKey>> \o pk[1], pk[2].name) = {}
    /\ (InertFragments # {} /\ RequestRoot # NoType /\ ~HasNull(selection))
         => query.error = NoError

\* A tree with a fragment on an unknown type, a fragment with an empty
\* subtree and a fragment with a selected field has been serialized.
C26_Witness ==
  /\ TextReturned
  /\ \E P \in ObjectPaths(selection) :
       /\ HasKey(At(selection, P), OnKey("Unknown"))
       /\ HasKey(At(selection, P), OnKey("Post"))
       /\ Get(At(selection, P), OnKey("Post")) = EmptyObj
       /\ FragmentPositions(query.text, <<OperationKey>> \o P, "User") # {}

\* The paths to the subtrees of interface- or union-typed fields that hold
\* an on_ key.
FragmentBearing ==
  {P \in ObjectPaths(selection) :
     /\ P # <<>>
     /\ P[Len(P)].pre = ""
     /\ Resolvable(P)
     /\ TypeAt(buildSchema(sdl), RequestRoot, P).astKind
          \in {"InterfaceTypeDefinition", "UnionTypeDefinition"}
     /\ FragmentKeys(At(selection, P)) # {}}

\* The positions of the field names, and of the fragments, directly inside
\* the blocks `blocks`.
NamesIn(tokens, blocks) ==
  {j \in FieldNamePositions(tokens) : OpenBlocks(tokens, j - 1) = blocks}
FragmentsIn(tokens, blocks) ==
  {j \in 1..Len(tokens) :
     /\ j + 2 <= Len(tokens)
     /\ tokens[j] = "..." /\ tokens[j + 1] = "on"
     /\ OpenBlocks(tokens, j - 1) = blocks}

\* Key a stands before key b in the object.
Before(o, a, b) == HasKey(o, a) /\ HasKey(o, b) /\ IndexOf(o, a) < IndexOf(o, b)

\* C27: the body emitted for a fragment-bearing subtree of an interface- or
\* union-typed field holds __typename first (if selected), then the selected
\* non-fragment fields in the subtree's key order, then the inline fragments
\* in the subtree's key order, however the keys are interleaved.
C27_FragmentBodyOrder ==
  (TextReturned /\ selection.t = "obj") =>
    \A P \in FragmentBearing :
      LET o == At(selection, P)
          names == NamesIn(query.text, <<OperationKey>> \o P)
          frags == FragmentsIn(query.text, <<OperationKey>> \o P)
      IN  /\ \A j \in names :
               query.text[j] = "__typename" => \A j2 \in names \cup frags : j <= j2
          /\ \A j \in names : \A f \in frags : j < f
          /\ \A j1, j2 \in names :
               (j1 < j2 /\ query.text[j1] # "__typename")
                 => Before(o, Key(query.text[j1]), Key(query.text[j2]))
          /\ \A f1, f2 \in frags :
               f1 < f2 => Before(o, OnKey(query.text[f1 + 2]), OnKey(query.text[f2 + 2]))

\* No value in the object, at any depth, is a reference to the object that
\* holds it.
RECURSIVE IsFiniteTree(_)
IsFiniteTree(o) ==
  \A i \in 1..Len(o.kids) :
    LET val == o.kids[i].val
    IN /\ val.t # "self"
       /\ val.t = "obj" => IsFiniteTree(val)

\* C28: the object the generator returns is a finite tree: no object in it
\* is reachable from itself by following its own keys.
C28_ReturnedTreeIsFinite == Untouched => IsFiniteTree(selection)

\* The object types that a schema definition of SDL text s names as the
\* query root.
NamedQueryRoots(s) ==
  {def \in {Schemas[s][i] : i \in 1..Len(Schemas[s])} :
     /\ def.kind = "ObjectTypeDefinition"
     /\ \E i \in 1..Len(Schemas[s]) :
          Schemas[s][i].kind = "SchemaDefinition" /\ Schemas[s][i].query = def.name}

\* C29: when the SDL text holds a schema definition that names the query
\* root, the tree is rooted at that type (its keys are that type's fields),
\* wherever the schema definition stands in the document; the type called
\* Query is the root only when there is no schema definition.
C29_ExplicitQueryRoot ==
  (Generated /\ edits = NoEdits /\ NamedQueryRoots(sdl) # {}) =>
    /\ selection.t = "obj"
    /\ \E def \in NamedQueryRoots(sdl) :
         {k \in KeySet(selection) : k # TypenameKey}
           = {Key(def.fields[i].name) : i \in 1..Len(def.fields)}

\* The calls of createTypeSelection made, and returned from, in the run of
\* the TypeScript generator that gave the held tree.
Invocations ==
  createTypeSelection(schemaCache[sdl].queryTypeName, schemaCache[sdl].typeMap,
                      includeTypename, {}, 1).invocations

\* C30: createTypeSelection leaves the shared visited set as it found it: on
\* return the set holds the same type names as at entry, for object,
\* interface and union types alike.
C30_VisitedRestored ==
  (Untouched /\ variant = "ts" /\ error = NoError /\ sdl \in DOMAIN schemaCache) =>
    \A call \in Invocations : call.exit = call.entry

====
